---- MODULE Spec2Model ----
(***************************************************************************)
(* A model of the shredder wipe engine (src/src/lib.rs, patterns.rs,       *)
(* standards.rs, storage.rs): one Shredder, the files it is asked to wipe, *)
(* and every wipe invocation as a sequence of I/O steps.                   *)
(***************************************************************************)
EXTENDS Integers, Sequences, FiniteSets, TLC

\* ------------------------------------------------------------------------
\* Bounds of the model
\* ------------------------------------------------------------------------

\* files shorter than one page: lengths 0..MaxSmallFile
MaxSmallFile == 2
\* files longer than the smallest write chunk: MIN_BUFFER+1 .. MIN_BUFFER+MaxLargeExtra
MaxLargeExtra == 1
\* files of whole pages: lengths MIN_BUFFER .. MaxBlocks * MIN_BUFFER
MaxBlocks == 2
\* files a few bytes longer than a page: lengths MIN_BUFFER .. MIN_BUFFER+MaxSlack
MaxSlack == 2
\* buffers handed to the pattern engine: lengths 0..MaxLen
MaxLen == 5
\* files handed to verify_wiping on its own: lengths 0..MaxScan
MaxScan == 3

\* ------------------------------------------------------------------------
\* Program constants
\* ------------------------------------------------------------------------

\* lib.rs:61  buffer_size: 1024 * 1024
DEFAULT_BUFFER == 1048576
\* lib.rs:426 const MIN_BUFFER: usize = 4 * 1024
MIN_BUFFER == 4096
\* lib.rs:427 const MAX_BUFFER: usize = 16 * 1024 * 1024
MAX_BUFFER == 16777216
\* lib.rs:312 let max_buffer = 8 * 1024 * 1024
max_buffer == 8388608
\* lib.rs:313 let min_buffer = 4 * 1024
min_buffer == 4096

Min(a, b) == IF a <= b THEN a ELSE b
Max(a, b) == IF a >= b THEN a ELSE b

\* ------------------------------------------------------------------------
\* patterns.rs
\* ------------------------------------------------------------------------

Zeros == [kind |-> "Zeros", bytes |-> <<>>]
Ones == [kind |-> "Ones", bytes |-> <<>>]
Random == [kind |-> "Random", bytes |-> <<>>]
Custom(bs) == [kind |-> "Custom", bytes |-> bs]
NoPattern == [kind |-> "-", bytes |-> <<>>]

\* the outcomes of rand::thread_rng().fill_bytes the model draws from: byte i
\* of stream s.  Stream 0 is the all-zero outcome, the others do not repeat
\* within a page.
RandStreams == {0, 1}
RandByte(s, i) == IF s = 0 THEN 0 ELSE (((i \div 256) + 1) * 7 + i * 13) % 256

\* WipePattern::fill_buffer on a buffer of length n (0-based index i is
\* element i+1).  Custom walks the buffer in chunks of pattern.len() and
\* copies pattern[..min(chunk.len(), pattern.len())] into each.
fill_buffer(p, n, s) ==
    CASE p.kind = "Zeros" -> [i \in 1..n |-> 0]
      [] p.kind = "Ones" -> [i \in 1..n |-> 255]
      [] p.kind = "Random" -> [i \in 1..n |-> RandByte(s, i - 1)]
      [] p.kind = "Custom" ->
           [i \in 1..n |->
               LET plen == Len(p.bytes)
                   c == (i - 1) \div plen
                   j == (i - 1) % plen
                   chunklen == Min(plen, n - c * plen)
                   copy_size == Min(chunklen, plen)
               IN  IF j < copy_size THEN p.bytes[j + 1] ELSE 0]

\* slice::chunks_mut(0) panics: a Custom pattern with no bytes cannot fill
fill_panics(p) == p.kind = "Custom" /\ Len(p.bytes) = 0

\* faulty variant: only whole chunks of a Custom pattern are compared
verify_buffer_whole_chunks(p, buffer) ==
    CASE p.kind = "Zeros" -> \A i \in 1..Len(buffer) : buffer[i] = 0
      [] p.kind = "Ones" -> \A i \in 1..Len(buffer) : buffer[i] = 255
      [] p.kind = "Random" -> TRUE
      [] p.kind = "Custom" ->
           LET plen == Len(p.bytes)
               n == Len(buffer)
           IN  \A c \in 0..((n \div plen) - 1) :
                   SubSeq(buffer, c * plen + 1, c * plen + plen) = p.bytes

\* WipePattern::verify_buffer.  Custom walks the buffer in chunks of
\* pattern.len() and compares chunk[..len] with pattern[..len], len being
\* min(chunk.len(), pattern.len())
verify_buffer(p, buffer) ==
    CASE p.kind = "Zeros" -> \A i \in 1..Len(buffer) : buffer[i] = 0
      [] p.kind = "Ones" -> \A i \in 1..Len(buffer) : buffer[i] = 255
      [] p.kind = "Random" -> TRUE
      [] p.kind = "Custom" ->
           LET plen == Len(p.bytes)
               n == Len(buffer)
           IN  \A c \in 0..(((n + plen - 1) \div plen) - 1) :
                   LET chunklen == Min(plen, n - c * plen)
                       len == Min(chunklen, plen)
                   IN  SubSeq(buffer, c * plen + 1, c * plen + len) =
                           SubSeq(p.bytes, 1, len)

\* slice::chunks(0) panics as chunks_mut(0) does
verify_panics(p) == p.kind = "Custom" /\ Len(p.bytes) = 0

\* ------------------------------------------------------------------------
\* standards.rs
\* ------------------------------------------------------------------------

gutmann_patterns ==
    << Random, Random, Random, Random,
       Custom(<<85, 85, 85>>), Custom(<<170, 170, 170>>),
       Custom(<<146, 73, 36>>), Custom(<<73, 36, 146>>), Custom(<<36, 146, 73>>),
       Custom(<<0, 0, 0>>), Custom(<<17, 17, 17>>), Custom(<<34, 34, 34>>),
       Custom(<<51, 51, 51>>), Custom(<<68, 68, 68>>), Custom(<<85, 85, 85>>),
       Custom(<<102, 102, 102>>), Custom(<<119, 119, 119>>), Custom(<<136, 136, 136>>),
       Custom(<<153, 153, 153>>), Custom(<<170, 170, 170>>), Custom(<<187, 187, 187>>),
       Custom(<<204, 204, 204>>), Custom(<<221, 221, 221>>), Custom(<<238, 238, 238>>),
       Custom(<<255, 255, 255>>),
       Custom(<<146, 73, 36>>), Custom(<<73, 36, 146>>), Custom(<<36, 146, 73>>),
       Custom(<<109, 182, 219>>), Custom(<<182, 219, 109>>), Custom(<<219, 109, 182>>),
       Random, Random, Random, Random >>

\* faulty variant: the first two DoD passes swapped, VSITR one pair short
get_patterns_misordered(legacy) ==
    CASE legacy = "Dod522022M" -> << Ones, Zeros, Random >>
      [] legacy = "VsitrStandard" -> << Zeros, Ones, Zeros, Ones, Random >>
      [] legacy = "Gutmann" -> gutmann_patterns

\* LegacyStandard::get_patterns
get_patterns(legacy) ==
    CASE legacy = "Dod522022M" -> << Zeros, Ones, Random >>
      [] legacy = "VsitrStandard" -> << Zeros, Ones, Zeros, Ones, Zeros, Ones, Random >>
      [] legacy = "Gutmann" -> gutmann_patterns

Modern(method, level) ==
    [variant |-> "Modern", method |-> method, verify_level |-> level,
     legacy |-> "-", extra_verification |-> FALSE,
     passes |-> <<>>, verify_each_pass |-> FALSE]
Legacy(std, extra) ==
    [variant |-> "Legacy", method |-> "-", verify_level |-> "-",
     legacy |-> std, extra_verification |-> extra,
     passes |-> <<>>, verify_each_pass |-> FALSE]
CustomStd(passes, each) ==
    [variant |-> "Custom", method |-> "-", verify_level |-> "-",
     legacy |-> "-", extra_verification |-> FALSE,
     passes |-> passes, verify_each_pass |-> each]

VerificationLevels == {"None", "Basic", "Full", "Enhanced"}
LegacyStandards == {"Dod522022M", "Gutmann", "VsitrStandard"}

\* the caller-supplied pass lists the model draws from
CustomPassLists ==
    { <<>>,
      << Custom(<<170, 85>>) >>,
      << Custom(<<>>) >>,
      << Ones, Random, Custom(<<1, 2, 3>>) >> }

Standards ==
    { Modern(m, v) : m \in {"Clear", "Purge"}, v \in VerificationLevels }
    \cup { Legacy(s, x) : s \in LegacyStandards, x \in BOOLEAN }
    \cup { CustomStd(ps, e) : ps \in CustomPassLists, e \in BOOLEAN }

\* ------------------------------------------------------------------------
\* storage.rs
\* ------------------------------------------------------------------------

Caps(trim, se, nvme, wl) ==
    [supports_trim |-> trim, supports_secure_erase |-> se,
     supports_nvme_sanitize |-> nvme, has_wear_leveling |-> wl]
Storage(variant, caps) == [variant |-> variant, caps |-> caps]

\* faulty variant: the flag is returned for every variant
supports_secure_erase_any_variant(st) ==
    CASE st.variant \in {"Ssd", "Hdd"} -> st.caps.supports_secure_erase
      [] st.variant = "Flash" -> st.caps.supports_secure_erase

\* StorageType::supports_secure_erase
supports_secure_erase(st) ==
    CASE st.variant \in {"Ssd", "Hdd"} -> st.caps.supports_secure_erase
      [] st.variant = "Flash" -> FALSE

\* faulty variant: the flag is returned for every variant
requires_wear_leveling_handling_any_variant(st) ==
    CASE st.variant \in {"Flash", "Ssd"} -> st.caps.has_wear_leveling
      [] st.variant = "Hdd" -> st.caps.has_wear_leveling

\* StorageType::requires_wear_leveling_handling
requires_wear_leveling_handling(st) ==
    CASE st.variant \in {"Flash", "Ssd"} -> st.caps.has_wear_leveling
      [] st.variant = "Hdd" -> FALSE

\* the storage classifications the model draws from
StorageTypes ==
    { Storage("Hdd", Caps(FALSE, TRUE, FALSE, FALSE)),
      Storage("Hdd", Caps(TRUE, FALSE, FALSE, TRUE)),
      Storage("Ssd", Caps(TRUE, TRUE, TRUE, TRUE)),
      Storage("Flash", Caps(FALSE, FALSE, FALSE, TRUE)),
      Storage("Flash", Caps(TRUE, TRUE, FALSE, TRUE)) }

\* ------------------------------------------------------------------------
\* lib.rs: pure helpers
\* ------------------------------------------------------------------------

\* faulty variant: without the early return for files below min_buffer
calculate_optimal_buffer_size_no_small_files(file_size) ==
    Min(max_buffer, Max(min_buffer, file_size \div 100))

\* Shredder::calculate_optimal_buffer_size
calculate_optimal_buffer_size(file_size) ==
    IF file_size < min_buffer
    THEN file_size
    ELSE Min(max_buffer, Max(min_buffer, file_size \div 100))

\* usize::clamp as used by Shredder::with_buffer_size
\* faulty variant: only the upper bound is applied
clamp_upper_only(size, lo, hi) == IF size > hi THEN hi ELSE size

clamp(size, lo, hi) == IF size < lo THEN lo ELSE IF size > hi THEN hi ELSE size

\* overwrite_file_contents, lines 245-255: the first n bytes of the write
\* buffer of bufsize bytes after it has been tiled, chunk by chunk of
\* pattern.len(), from the pattern buffer
RECURSIVE write_buffer(_, _, _)
write_buffer(pattern, bufsize, n) ==
    IF n = 0
    THEN <<>>
    ELSE LET chunklen == Min(Len(pattern), bufsize)
             len == Min(chunklen, Len(pattern))
             take == Min(len, n)
         IN  SubSeq(pattern, 1, take) \o write_buffer(pattern, bufsize - chunklen, n - take)

\* faulty variant: the zero and ones passes swapped
purge_patterns_reordered == << Random, Ones, Zeros, Random >>

\* perform_purge_overwrite: the software Purge sequence
purge_patterns == << Random, Zeros, Ones, Random >>

\* what a file holds after the bytes `src` are stored at 0-based offset `pos`
StoreAt(data, pos, src) ==
    SubSeq(data, 1, pos) \o src \o SubSeq(data, pos + Len(src) + 1, Len(data))

\* the `count` bytes of a file from 0-based offset `pos`
\* a file after write_all stored src at offset pos: the bytes are in the
\* file, and not yet committed to the medium (dirty) until a sync_all
Stored(f, pos, src) ==
    [f EXCEPT !.data = StoreAt(@, pos, src), !.dirty = @ \/ Len(src) > 0]
\* a file after sync_all returned Ok
Synced(f) == [f EXCEPT !.dirty = FALSE]

ReadAt(data, pos, count) == SubSeq(data, pos + 1, pos + count)

\* ------------------------------------------------------------------------
\* State
\* ------------------------------------------------------------------------

VARIABLES
    shredder,   \* the Shredder: standard, storage_type, buffer_size
    disk,       \* path -> [exists, writable, data, dirty]
    inv,        \* wipe invocation -> its locals and position
    hist        \* wipe invocation -> what it has done so far (history)

vars == << shredder, disk, inv, hist >>

Paths == {"f"}

FileSizes == (0..MaxSmallFile) \cup {MIN_BUFFER + k : k \in 1..MaxLargeExtra}

\* the content of a file before it is wiped: no byte is zero
InitialData(n) == [i \in 1..n |-> ((i * 7) % 255) + 1]

\* the buffer sizes a caller asks with_buffer_size for
RequestedSizes == {0}

\* what a successful hardware erase leaves readable through the open handle
HwEffects == {"unchanged", "zeroed"}

NoResult == [tag |-> "None", op |-> "-", detail |-> "-", offset |-> 0]
Ok == [tag |-> "Ok", op |-> "-", detail |-> "-", offset |-> 0]
IoError(op, detail) == [tag |-> "Io", op |-> op, detail |-> detail, offset |-> 0]
VerificationFailed(detail, offset) ==
    [tag |-> "VerificationFailed", op |-> "compare", detail |-> detail, offset |-> offset]
Panic(op) == [tag |-> "Panic", op |-> op, detail |-> "-", offset |-> 0]
UnsupportedOperation(detail) ==
    [tag |-> "UnsupportedOperation", op |-> "perform_secure_erase", detail |-> detail,
     offset |-> 0]

Event(ev, idx, pat, lvl) == [ev |-> ev, idx |-> idx, pat |-> pat, lvl |-> lvl]

IdleInv ==
    [pc |-> "idle", path |-> "f", result |-> NoResult, file_size |-> 0,
     buffer |-> <<>>, pos |-> 0, written |-> 0, plist |-> <<>>, pidx |-> 0,
     vlevel |-> "-", vkind |-> "-", vsize |-> 0, vleft |-> 0]

\* prior: how this caller's previous wipe of the path ended ("-": none)
NoHist ==
    [events |-> <<>>, ioCount |-> 0, errors |-> <<>>, covered |-> 0, fullPasses |-> 0,
     prior |-> "-"]

Threads == DOMAIN inv

InitDisk ==
    disk \in [Paths ->
        {[exists |-> FALSE, writable |-> FALSE, data |-> <<>>, dirty |-> FALSE]}
        \cup {[exists |-> TRUE, writable |-> w, data |-> InitialData(n), dirty |-> FALSE] :
                 w \in BOOLEAN, n \in FileSizes}]

\* Shredder::new
new(standard, storage_type) ==
    [standard |-> standard, storage_type |-> storage_type,
     buffer_size |-> DEFAULT_BUFFER]

\* perform_legacy_wipe and perform_custom_wipe never read storage_type: two
\* classifications are enough for them
Configurations ==
    { c \in Standards \X StorageTypes :
        \/ c[1].variant = "Modern"
        \/ c[2] \in { Storage("Hdd", Caps(FALSE, TRUE, FALSE, FALSE)),
                      Storage("Ssd", Caps(TRUE, TRUE, TRUE, TRUE)) } }

Init ==
    /\ shredder \in {new(c[1], c[2]) : c \in Configurations}
    /\ InitDisk
    /\ inv = [t \in {1} |-> IdleInv]
    /\ hist = [t \in {1} |-> NoHist]

\* ------------------------------------------------------------------------
\* History bookkeeping
\* ------------------------------------------------------------------------

\* n more I/O or collaborator calls were made and all returned success
Called(h, n) == [h EXCEPT !.ioCount = @ + n]
\* n more calls were made and then op produced an error: the last of the
\* calls returned it, or a comparison of what was read ("compare") raised it
Errored(h, n, op) ==
    [h EXCEPT !.ioCount = @ + n,
              !.errors = Append(@, [op |-> op, at |-> h.ioCount + n])]
Logged(h, e) == [h EXCEPT !.events = Append(@, e)]
\* count bytes were handed to the file at offset pos: the pass in progress
\* has now written every offset below `covered`
Wrote(h, pos, count) ==
    [h EXCEPT !.covered = IF pos <= @ THEN Max(@, pos + count) ELSE @]

\* `?` on an Err value: the function returns the error to wipe's caller
Return(iv, res) == [iv EXCEPT !.pc = "done", !.result = res]

Set(t, iv, h) ==
    /\ inv' = [inv EXCEPT ![t] = iv]
    /\ hist' = [hist EXCEPT ![t] = h]

\* ------------------------------------------------------------------------
\* Control flow between the steps of a wipe
\* ------------------------------------------------------------------------

\* a call of verify_wiping(file, buffer, level)
StartVerify(iv, level, kind) ==
    [iv EXCEPT !.pc = "verify_start", !.vlevel = level, !.vkind = kind]

\* faulty variant: the verification after the passes is left out
AfterLoopSkipsVerification(iv, std) == [iv EXCEPT !.pc = "sync"]

\* faulty variant: Modern calls verify_wiping whatever the level
AfterLoopAlwaysVerifies(iv, std) ==
    CASE std.variant = "Modern" -> StartVerify(iv, std.verify_level, "final")
      [] std.variant = "Legacy" ->
           IF std.extra_verification
           THEN StartVerify(iv, "Full", "final")
           ELSE [iv EXCEPT !.pc = "sync"]
      [] std.variant = "Custom" -> [iv EXCEPT !.pc = "sync"]

\* after the pass loop: lib.rs 131-141 (Modern), 187-194 (Legacy), 229 (Custom)
AfterLoop(iv, std) ==
    CASE std.variant = "Modern" ->
           IF std.verify_level # "None"
           THEN StartVerify(iv, std.verify_level, "final")
           ELSE [iv EXCEPT !.pc = "sync"]
      [] std.variant = "Legacy" ->
           IF std.extra_verification
           THEN StartVerify(iv, "Full", "final")
           ELSE [iv EXCEPT !.pc = "sync"]
      [] std.variant = "Custom" -> [iv EXCEPT !.pc = "sync"]

\* faulty variant: the loop stops one element early
EnterLoopStopsEarly(iv, std, k) ==
    IF k < Len(iv.plist)
    THEN [iv EXCEPT !.pc = "pass_start", !.pidx = k]
    ELSE AfterLoop(iv, std)

\* the head of a `for (i, pattern) in patterns.iter().enumerate()` loop
EnterLoop(iv, std, k) ==
    IF k <= Len(iv.plist)
    THEN [iv EXCEPT !.pc = "pass_start", !.pidx = k]
    ELSE AfterLoop(iv, std)

\* faulty variant: no verification inside the loop body
AfterPassNoVerification(iv, std) == EnterLoop(iv, std, iv.pidx + 1)

\* faulty variant: a Custom pass is verified by sampling only
AfterPassCustomBasic(iv, std) ==
    CASE std.variant = "Legacy" /\ std.extra_verification ->
           StartVerify(iv, "Basic", "pass")
      [] std.variant = "Custom" /\ std.verify_each_pass ->
           StartVerify(iv, "Basic", "pass")
      [] OTHER -> EnterLoop(iv, std, iv.pidx + 1)

\* after overwrite_file_contents returned Ok inside the loop body
AfterPass(iv, std) ==
    CASE std.variant = "Legacy" /\ std.extra_verification ->
           StartVerify(iv, "Basic", "pass")
      [] std.variant = "Custom" /\ std.verify_each_pass ->
           StartVerify(iv, "Full", "pass")
      [] OTHER -> EnterLoop(iv, std, iv.pidx + 1)

\* after verify_wiping returned Ok
AfterVerify(iv, std) ==
    IF iv.vkind = "pass"
    THEN EnterLoop(iv, std, iv.pidx + 1)
    ELSE [iv EXCEPT !.pc = "sync"]

\* faulty variant: Clear overwrites with zeros instead of random data
AfterWearClearZeros(iv, std, st) ==
    CASE std.method = "Clear" ->
           EnterLoop([iv EXCEPT !.plist = << Zeros >>], std, 1)
      [] std.method = "Purge" ->
           IF supports_secure_erase(st)
           THEN [iv EXCEPT !.pc = "secure_erase"]
           ELSE EnterLoop([iv EXCEPT !.plist = purge_patterns], std, 1)

\* perform_modern_wipe after the wear-leveling step: `match config.method`
AfterWear(iv, std, st) ==
    CASE std.method = "Clear" ->
           EnterLoop([iv EXCEPT !.plist = << Random >>], std, 1)
      [] std.method = "Purge" ->
           IF supports_secure_erase(st)
           THEN [iv EXCEPT !.pc = "secure_erase"]
           ELSE EnterLoop([iv EXCEPT !.plist = purge_patterns], std, 1)

\* ------------------------------------------------------------------------
\* Operations
\* ------------------------------------------------------------------------

\* Shredder::with_buffer_size, called before the Shredder is used
with_buffer_size(size) ==
    /\ \A t \in Threads : inv[t].pc = "idle"
    /\ shredder' = [shredder EXCEPT !.buffer_size = clamp(size, MIN_BUFFER, MAX_BUFFER)]
    /\ UNCHANGED << disk, inv, hist >>

\* Shredder::wipe: dispatch on the standard; the Legacy and Custom drivers
\* take their pass list before they open the file
wipe(t, path) ==
    /\ inv[t].pc = "idle"
    /\ LET std == shredder.standard
           plist == CASE std.variant = "Legacy" -> get_patterns(std.legacy)
                      [] std.variant = "Custom" -> std.passes
                      [] OTHER -> <<>>
       IN  Set(t, [inv[t] EXCEPT !.pc = "open", !.path = path, !.plist = plist], hist[t])
    /\ UNCHANGED << shredder, disk >>

\* Shredder::wipe called once more on a path whose wipe returned Ok
wipe_again(t) ==
    /\ inv[t].pc = "done" /\ inv[t].result.tag = "Ok"
    /\ LET std == shredder.standard
           plist == CASE std.variant = "Legacy" -> get_patterns(std.legacy)
                      [] std.variant = "Custom" -> std.passes
                      [] OTHER -> <<>>
       IN  Set(t, [IdleInv EXCEPT !.pc = "open", !.path = inv[t].path, !.plist = plist],
               [NoHist EXCEPT !.prior = "Ok"])
    /\ UNCHANGED << shredder, disk >>

\* faulty variant: the file is opened with create(true)
Open_creates(t) ==
    /\ inv[t].pc = "open"
    /\ LET p == inv[t].path
           f == disk[p]
       IN  \/ /\ ~f.exists
              /\ disk' = [disk EXCEPT ![p].exists = TRUE, ![p].writable = TRUE,
                                      ![p].data = <<>>]
              /\ Set(t, [inv[t] EXCEPT !.pc = "metadata", !.pos = 0],
                     Logged(Called(hist[t], 1), Event("open", 0, NoPattern, "-")))
           \/ /\ f.exists /\ ~f.writable
              /\ Set(t, Return(inv[t], IoError("open", "PermissionDenied")),
                     Errored(hist[t], 1, "open"))
              /\ UNCHANGED disk
           \/ /\ f.exists /\ f.writable
              /\ Set(t, [inv[t] EXCEPT !.pc = "metadata", !.pos = 0],
                     Logged(Called(hist[t], 1), Event("open", 0, NoPattern, "-")))
              /\ UNCHANGED disk
    /\ UNCHANGED shredder

\* faulty variant: the result of open is not checked
Open_unchecked(t) ==
    /\ inv[t].pc = "open"
    /\ LET f == disk[inv[t].path]
       IN  \/ /\ ~f.exists
              /\ Set(t, Return(inv[t], IoError("open", "NotFound")),
                     Errored(hist[t], 1, "open"))
           \/ /\ f.exists
              /\ Set(t, [inv[t] EXCEPT !.pc = "metadata", !.pos = 0],
                     Logged(Called(hist[t], 1), Event("open", 0, NoPattern, "-")))
    /\ UNCHANGED << shredder, disk >>

\* OpenOptions::new().write(true).read(true).open(path)
Open(t) ==
    /\ inv[t].pc = "open"
    /\ LET f == disk[inv[t].path]
       IN  \/ /\ ~f.exists
              /\ Set(t, Return(inv[t], IoError("open", "NotFound")),
                     Errored(hist[t], 1, "open"))
           \/ /\ f.exists /\ ~f.writable
              /\ Set(t, Return(inv[t], IoError("open", "PermissionDenied")),
                     Errored(hist[t], 1, "open"))
           \/ /\ f.exists /\ f.writable
              /\ \/ Set(t, Return(inv[t], IoError("open", "Other")),
                        Errored(hist[t], 1, "open"))
                 \/ Set(t, [inv[t] EXCEPT !.pc = "metadata", !.pos = 0],
                        Logged(Called(hist[t], 1), Event("open", 0, NoPattern, "-")))
    /\ UNCHANGED << shredder, disk >>

\* file.metadata()?.len(), calculate_optimal_buffer_size, vec![0u8; n]
Metadata(t) ==
    /\ inv[t].pc = "metadata"
    /\ \/ Set(t, Return(inv[t], IoError("metadata", "Other")),
              Errored(hist[t], 1, "metadata"))
       \/ LET std == shredder.standard
              st == shredder.storage_type
              file_size == Len(disk[inv[t].path].data)
              n == calculate_optimal_buffer_size(file_size)
              iv == [inv[t] EXCEPT !.file_size = file_size,
                                   !.buffer = [i \in 1..n |-> 0]]
              h == Logged(Called(hist[t], 1), Event("metadata", 0, NoPattern, "-"))
          IN  IF std.variant = "Modern"
              THEN IF requires_wear_leveling_handling(st)
                   THEN Set(t, [iv EXCEPT !.pc = "wear"], h)
                   ELSE Set(t, AfterWear(iv, std, st), h)
              ELSE Set(t, EnterLoop(iv, std, 1), h)
    /\ UNCHANGED << shredder, disk >>

\* faulty variant: a failed TRIM is ignored and the wipe carries on
handle_wear_leveling_best_effort(t) ==
    /\ inv[t].pc = "wear"
    /\ LET std == shredder.standard
           st == shredder.storage_type
       IN  IF st.variant \in {"Ssd", "Flash"} /\ st.caps.supports_trim
           THEN \/ Set(t, AfterWear(inv[t], std, st),
                       Errored(hist[t], 1, "perform_trim"))
                \/ Set(t, AfterWear(inv[t], std, st),
                       Logged(Called(hist[t], 1), Event("trim", 0, NoPattern, "-")))
           ELSE Set(t, AfterWear(inv[t], std, st), hist[t])
    /\ UNCHANGED << shredder, disk >>

\* faulty variant: TRIM is issued whether or not the device supports it
handle_wear_leveling_always_trims(t) ==
    /\ inv[t].pc = "wear"
    /\ LET std == shredder.standard
           st == shredder.storage_type
       IN  IF st.variant \in {"Ssd", "Flash"}
           THEN \/ Set(t, Return(inv[t], IoError("perform_trim", "Other")),
                       Errored(hist[t], 1, "perform_trim"))
                \/ Set(t, AfterWear(inv[t], std, st),
                       Logged(Called(hist[t], 1), Event("trim", 0, NoPattern, "-")))
           ELSE Set(t, AfterWear(inv[t], std, st), hist[t])
    /\ UNCHANGED << shredder, disk >>

\* Shredder::handle_wear_leveling and the TRIM collaborator
handle_wear_leveling(t) ==
    /\ inv[t].pc = "wear"
    /\ LET std == shredder.standard
           st == shredder.storage_type
       IN  IF st.variant \in {"Ssd", "Flash"} /\ st.caps.supports_trim
           THEN \/ Set(t, Return(inv[t], IoError("perform_trim", "Other")),
                       Errored(hist[t], 1, "perform_trim"))
                \/ Set(t, AfterWear(inv[t], std, st),
                       Logged(Called(hist[t], 1), Event("trim", 0, NoPattern, "-")))
           ELSE Set(t, AfterWear(inv[t], std, st), hist[t])
    /\ UNCHANGED << shredder, disk >>

\* faulty variant: a failed hardware erase is ignored without the software passes
perform_hardware_secure_erase_no_fallback(t) ==
    /\ inv[t].pc = "secure_erase"
    /\ LET std == shredder.standard
           p == inv[t].path
       IN  \/ /\ Set(t, AfterLoop([inv[t] EXCEPT !.plist = <<>>], std),
                     Logged(Errored(hist[t], 1, "perform_secure_erase"),
                            Event("hw_failed", 0, NoPattern, "-")))
              /\ UNCHANGED disk
           \/ /\ Set(t, AfterLoop([inv[t] EXCEPT !.plist = <<>>], std),
                     Logged(Called(hist[t], 1), Event("hw_ok", 0, NoPattern, "-")))
              /\ \E eff \in HwEffects :
                    disk' = [disk EXCEPT ![p].data =
                                IF eff = "zeroed" THEN [i \in 1..Len(@) |-> 0] ELSE @]
    /\ UNCHANGED shredder

\* the Purge branch when the device supports secure erase: the hardware
\* collaborator, and the software sequence when it fails
perform_hardware_secure_erase(t) ==
    /\ inv[t].pc = "secure_erase"
    /\ LET std == shredder.standard
           p == inv[t].path
       IN  \/ /\ Set(t, EnterLoop([inv[t] EXCEPT !.plist = purge_patterns], std, 1),
                     Logged(Errored(hist[t], 1, "perform_secure_erase"),
                            Event("hw_failed", 0, NoPattern, "-")))
              /\ UNCHANGED disk
           \/ /\ Set(t, AfterLoop([inv[t] EXCEPT !.plist = <<>>], std),
                     Logged(Called(hist[t], 1), Event("hw_ok", 0, NoPattern, "-")))
              /\ \E eff \in HwEffects :
                    disk' = [disk EXCEPT ![p].data =
                                IF eff = "zeroed" THEN [i \in 1..Len(@) |-> 0] ELSE @]
    /\ UNCHANGED shredder

\* faulty variant: the chunk size ignores what the pass has written
write_size_of_whole_file(iv) == Min(iv.file_size, shredder.buffer_size)

\* the write chunk of the pass in progress: lib.rs 257-258
write_size(iv) == Min(iv.file_size - iv.written, shredder.buffer_size)

\* the loop head of a pass: pattern.fill_buffer(&mut buffer), then
\* overwrite_file_contents up to its `while written < file_size`
overwrite_start(t) ==
    /\ inv[t].pc = "pass_start"
    /\ LET pattern == inv[t].plist[inv[t].pidx]
       IN  IF fill_panics(pattern)
           THEN Set(t, Return(inv[t], Panic("fill_buffer")), hist[t])
           ELSE \E s \in IF pattern.kind = "Random" THEN RandStreams ELSE {0} :
                  LET buffer == fill_buffer(pattern, Len(inv[t].buffer), s)
                  IN  \/ Set(t, Return([inv[t] EXCEPT !.buffer = buffer],
                                       IoError("seek", "Other")),
                             Errored(hist[t], 1, "seek"))
                      \/ Set(t, [inv[t] EXCEPT
                                    !.buffer = buffer, !.pos = 0, !.written = 0,
                                    !.pc = IF 0 < inv[t].file_size
                                           THEN "chunk_write" ELSE "pass_sync"],
                             [Called(hist[t], 1) EXCEPT !.covered = 0])
    /\ UNCHANGED << shredder, disk >>

\* faulty variant: the chunk goes through the handle opened last by any
\* invocation instead of this invocation's own
overwrite_write_chunk_shared_handle(t) ==
    /\ inv[t].pc = "chunk_write"
    /\ LET iv == inv[t]
           others == {u \in Threads \ {t} : inv[u].pc \notin {"idle", "open"}}
           p == IF others = {} THEN iv.path ELSE inv[CHOOSE u \in others : TRUE].path
           ws == write_size(iv)
           good == write_buffer(iv.buffer, shredder.buffer_size, ws)
       IN  /\ disk' = [disk EXCEPT ![p] = Stored(@, iv.pos, good)]
           /\ \/ Set(t, Return([iv EXCEPT !.pos = @ + ws], IoError("flush", "Other")),
                     Errored(hist[t], 2, "flush"))
              \/ Set(t, [iv EXCEPT !.pos = @ + ws, !.pc = "chunk_verify"],
                     Wrote(Called(hist[t], 2), iv.pos, ws))
    /\ UNCHANGED shredder

\* file.write_all(&write_buffer[..write_size])?; file.flush()?
\* The medium may store a chunk wrongly without reporting it, and a failed
\* write_all may have stored part of the chunk.
overwrite_write_chunk(t) ==
    /\ inv[t].pc = "chunk_write"
    /\ LET iv == inv[t]
           p == iv.path
           ws == write_size(iv)
           good == write_buffer(iv.buffer, shredder.buffer_size, ws)
           bad == [good EXCEPT ![1] = (@ + 1) % 256]
       IN  \/ /\ \E part \in {0, ws \div 2} :
                    disk' = [disk EXCEPT ![p] = Stored(@, iv.pos, SubSeq(good, 1, part))]
              /\ Set(t, Return(iv, IoError("write_all", "Other")),
                     Errored(hist[t], 1, "write_all"))
           \/ /\ disk' = [disk EXCEPT ![p] = Stored(@, iv.pos, good)]
              /\ \/ Set(t, Return([iv EXCEPT !.pos = @ + ws], IoError("flush", "Other")),
                        Errored(hist[t], 2, "flush"))
                 \/ Set(t, [iv EXCEPT !.pos = @ + ws, !.pc = "chunk_verify"],
                        Wrote(Called(hist[t], 2), iv.pos, ws))
           \/ /\ disk' = [disk EXCEPT ![p] = Stored(@, iv.pos, bad)]
              /\ Set(t, [iv EXCEPT !.pos = @ + ws, !.pc = "chunk_verify"],
                     Wrote(Called(hist[t], 2), iv.pos, ws))
    /\ UNCHANGED shredder

\* faulty variant: the readback is compared with nothing
overwrite_verify_chunk_no_compare(t) ==
    /\ inv[t].pc = "chunk_verify"
    /\ LET iv == inv[t]
           data == disk[iv.path].data
           ws == write_size(iv)
           pos == iv.written
       IN  \/ Set(t, Return(iv, IoError("seek", "Other")),
                  Errored(hist[t], 1, "seek"))
           \/ Set(t, Return([iv EXCEPT !.pos = pos], IoError("read_exact", "Other")),
                  Errored(hist[t], 2, "read_exact"))
           \/ /\ pos + ws <= Len(data)
              /\ Set(t, [iv EXCEPT
                            !.pos = pos + ws, !.written = @ + ws,
                            !.pc = IF iv.written + ws < iv.file_size
                                   THEN "chunk_write" ELSE "pass_sync"],
                     Called(hist[t], 2))
    /\ UNCHANGED << shredder, disk >>

\* seek(SeekFrom::Start(written)), read_exact into a buffer of write_size
\* bytes, compare with write_buffer[..write_size], written += write_size
overwrite_verify_chunk(t) ==
    /\ inv[t].pc = "chunk_verify"
    /\ LET iv == inv[t]
           data == disk[iv.path].data
           ws == write_size(iv)
           pos == iv.written
       IN  \/ Set(t, Return(iv, IoError("seek", "Other")),
                  Errored(hist[t], 1, "seek"))
           \/ Set(t, Return([iv EXCEPT !.pos = pos], IoError("read_exact", "Other")),
                  Errored(hist[t], 2, "read_exact"))
           \/ /\ pos + ws > Len(data)
              /\ Set(t, Return([iv EXCEPT !.pos = pos], IoError("read_exact", "UnexpectedEof")),
                     Errored(hist[t], 2, "read_exact"))
           \/ /\ pos + ws <= Len(data)
              /\ LET readback == ReadAt(data, pos, ws)
                     expected == write_buffer(iv.buffer, shredder.buffer_size, ws)
                 IN  IF readback # expected
                     THEN Set(t, Return([iv EXCEPT !.pos = pos + ws],
                                        VerificationFailed("Immediate", iv.written)),
                              Errored(hist[t], 2, "compare"))
                     ELSE Set(t, [iv EXCEPT
                                     !.pos = pos + ws, !.written = @ + ws,
                                     !.pc = IF iv.written + ws < iv.file_size
                                            THEN "chunk_write" ELSE "pass_sync"],
                              Called(hist[t], 2))
    /\ UNCHANGED << shredder, disk >>

\* faulty variant: overwrite_file_contents returns without sync_all
overwrite_sync_flush_only(t) ==
    /\ inv[t].pc = "pass_sync"
    /\ LET iv == inv[t]
           std == shredder.standard
       IN  \/ Set(t, Return(iv, IoError("flush", "Other")),
                  Errored(hist[t], 1, "flush"))
           \/ Set(t, AfterPass(iv, std),
                  [Logged(Called(hist[t], 1),
                          Event("pass", iv.pidx, iv.plist[iv.pidx], "-"))
                     EXCEPT !.fullPasses =
                              IF hist[t].covered >= iv.file_size THEN @ + 1 ELSE @])
    /\ UNCHANGED << shredder, disk >>

\* the end of overwrite_file_contents: file.flush()?; file.sync_all()?; Ok(())
overwrite_sync(t) ==
    /\ inv[t].pc = "pass_sync"
    /\ LET iv == inv[t]
           std == shredder.standard
       IN  \/ /\ Set(t, Return(iv, IoError("flush", "Other")),
                     Errored(hist[t], 1, "flush"))
              /\ UNCHANGED disk
           \/ /\ Set(t, Return(iv, IoError("sync_all", "Other")),
                     Errored(hist[t], 2, "sync_all"))
              /\ UNCHANGED disk
           \/ /\ Set(t, AfterPass(iv, std),
                     [Logged(Called(hist[t], 2),
                             Event("pass", iv.pidx, iv.plist[iv.pidx], "-"))
                        EXCEPT !.fullPasses =
                                 IF hist[t].covered >= iv.file_size THEN @ + 1 ELSE @])
              /\ disk' = [disk EXCEPT ![iv.path] = Synced(@)]
    /\ UNCHANGED shredder

\* verify_wiping up to its loop.  Basic: file.metadata()?.len(), the empty
\* file, the sample count.  Full | Enhanced: seek(Start(0)), the metadata
\* call, the empty file.
verify_wiping_start(t) ==
    /\ inv[t].pc = "verify_start"
    /\ LET iv == inv[t]
           std == shredder.standard
           len == Len(disk[iv.path].data)
           verified(n) == Set(t, AfterVerify(iv, std),
                              Logged(Called(hist[t], n),
                                     Event("verify", iv.pidx, NoPattern, iv.vlevel)))
       IN  CASE iv.vlevel = "None" -> verified(0)
             [] iv.vlevel = "Basic" ->
                  \/ Set(t, Return(iv, IoError("metadata", "Other")),
                         Errored(hist[t], 1, "metadata"))
                  \/ IF len = 0
                     THEN verified(1)
                     ELSE Set(t, [iv EXCEPT !.pc = "verify_basic", !.vsize = len,
                                            !.vleft = Max(len \div 100, 1)],
                              Called(hist[t], 1))
             [] iv.vlevel \in {"Full", "Enhanced"} ->
                  \/ Set(t, Return(iv, IoError("seek", "Other")),
                         Errored(hist[t], 1, "seek"))
                  \/ Set(t, Return([iv EXCEPT !.pos = 0], IoError("metadata", "Other")),
                         Errored(hist[t], 2, "metadata"))
                  \/ IF len = 0
                     THEN verified(2)
                     ELSE Set(t, [iv EXCEPT !.pc = "verify_full", !.pos = 0, !.vsize = len],
                              Called(hist[t], 2))
    /\ UNCHANGED << shredder, disk >>

\* faulty variant: the sampling loop does not count its iterations
verify_wiping_sample_uncounted(t) ==
    /\ inv[t].pc = "verify_basic"
    /\ LET iv == inv[t]
           std == shredder.standard
           data == disk[iv.path].data
           plen == Len(iv.buffer)
           max_offset == IF iv.vsize >= plen THEN iv.vsize - plen ELSE 0
           verified == Set(t, AfterVerify(iv, std),
                           Logged(hist[t], Event("verify", iv.pidx, NoPattern, iv.vlevel)))
       IN  IF iv.vleft = 0 \/ max_offset = 0
           THEN verified
           ELSE \E offset \in 0..(max_offset - 1) :
                  \/ Set(t, Return(iv, IoError("seek", "Other")),
                         Errored(hist[t], 1, "seek"))
                  \/ Set(t, Return([iv EXCEPT !.pos = offset], IoError("read_exact", "Other")),
                         Errored(hist[t], 2, "read_exact"))
                  \/ /\ offset + plen > Len(data)
                     /\ Set(t, Return([iv EXCEPT !.pos = offset],
                                      IoError("read_exact", "UnexpectedEof")),
                            Errored(hist[t], 2, "read_exact"))
                  \/ /\ offset + plen <= Len(data)
                     /\ IF ReadAt(data, offset, plen) # iv.buffer
                        THEN Set(t, Return([iv EXCEPT !.pos = offset + plen],
                                           VerificationFailed("Sample", offset)),
                                 Errored(hist[t], 2, "compare"))
                        ELSE Set(t, [iv EXCEPT !.pos = offset + plen],
                                 Called(hist[t], 2))
    /\ UNCHANGED << shredder, disk >>

\* one iteration of the Basic sampling loop, lib.rs 349-366
verify_wiping_sample(t) ==
    /\ inv[t].pc = "verify_basic"
    /\ LET iv == inv[t]
           std == shredder.standard
           data == disk[iv.path].data
           plen == Len(iv.buffer)
           max_offset == IF iv.vsize >= plen THEN iv.vsize - plen ELSE 0
           verified == Set(t, AfterVerify(iv, std),
                           Logged(hist[t], Event("verify", iv.pidx, NoPattern, iv.vlevel)))
       IN  IF iv.vleft = 0 \/ max_offset = 0
           THEN verified
           ELSE \E offset \in 0..(max_offset - 1) :
                  \/ Set(t, Return(iv, IoError("seek", "Other")),
                         Errored(hist[t], 1, "seek"))
                  \/ Set(t, Return([iv EXCEPT !.pos = offset], IoError("read_exact", "Other")),
                         Errored(hist[t], 2, "read_exact"))
                  \/ /\ offset + plen > Len(data)
                     /\ Set(t, Return([iv EXCEPT !.pos = offset],
                                      IoError("read_exact", "UnexpectedEof")),
                            Errored(hist[t], 2, "read_exact"))
                  \/ /\ offset + plen <= Len(data)
                     /\ IF ReadAt(data, offset, plen) # iv.buffer
                        THEN Set(t, Return([iv EXCEPT !.pos = offset + plen],
                                           VerificationFailed("Sample", offset)),
                                 Errored(hist[t], 2, "compare"))
                        ELSE Set(t, [iv EXCEPT !.pos = offset + plen, !.vleft = @ - 1],
                                 Called(hist[t], 2))
    /\ UNCHANGED << shredder, disk >>

\* faulty variant: at level Enhanced a block that differs is accepted
verify_wiping_block_enhanced_unchecked(t) ==
    /\ inv[t].pc = "verify_full"
    /\ LET iv == inv[t]
           std == shredder.standard
           data == disk[iv.path].data
           plen == Len(iv.buffer)
       IN  \/ Set(t, Return(iv, IoError("read_exact", "Other")),
                  Errored(hist[t], 1, "read_exact"))
           \/ /\ iv.pos + plen > Len(data)
              /\ Set(t, AfterVerify(iv, std),
                     Logged(Errored(hist[t], 1, "read_exact_eof"),
                            Event("verify", iv.pidx, NoPattern, iv.vlevel)))
           \/ /\ iv.pos + plen <= Len(data)
              /\ IF iv.vlevel = "Full" /\ ReadAt(data, iv.pos, plen) # iv.buffer
                 THEN Set(t, Return([iv EXCEPT !.pos = @ + plen],
                                    VerificationFailed("Full", 0)),
                          Errored(hist[t], 1, "compare"))
                 ELSE Set(t, [iv EXCEPT !.pos = @ + plen], Called(hist[t], 1))
    /\ UNCHANGED << shredder, disk >>

\* one iteration of the Full | Enhanced loop, lib.rs 378-390: read_exact
\* returns Err(UnexpectedEof) when fewer than pattern-length bytes are left
\* (none, or a shorter tail), and that error ends the loop with Ok(())
verify_wiping_block(t) ==
    /\ inv[t].pc = "verify_full"
    /\ LET iv == inv[t]
           std == shredder.standard
           data == disk[iv.path].data
           plen == Len(iv.buffer)
       IN  \/ Set(t, Return(iv, IoError("read_exact", "Other")),
                  Errored(hist[t], 1, "read_exact"))
           \/ /\ iv.pos + plen > Len(data)
              /\ Set(t, AfterVerify(iv, std),
                     Logged(Errored(hist[t], 1, "read_exact_eof"),
                            Event("verify", iv.pidx, NoPattern, iv.vlevel)))
           \/ /\ iv.pos + plen <= Len(data)
              /\ IF ReadAt(data, iv.pos, plen) # iv.buffer
                 THEN Set(t, Return([iv EXCEPT !.pos = @ + plen],
                                    VerificationFailed("Full", 0)),
                          Errored(hist[t], 1, "compare"))
                 ELSE Set(t, [iv EXCEPT !.pos = @ + plen], Called(hist[t], 1))
    /\ UNCHANGED << shredder, disk >>

\* file.sync_all()?; drop(file)
sync_all(t) ==
    /\ inv[t].pc = "sync"
    /\ \/ /\ Set(t, Return(inv[t], IoError("sync_all", "Other")),
                 Errored(hist[t], 1, "sync_all"))
          /\ UNCHANGED disk
       \/ /\ Set(t, [inv[t] EXCEPT !.pc = "remove"],
                 Logged(Called(hist[t], 1), Event("sync", 0, NoPattern, "-")))
          /\ disk' = [disk EXCEPT ![inv[t].path] = Synced(@)]
    /\ UNCHANGED shredder

\* faulty variant: the result of remove_file is dropped
remove_file_result_dropped(t) ==
    /\ inv[t].pc = "remove"
    /\ LET p == inv[t].path
       IN  \/ /\ Set(t, Return(inv[t], Ok), Errored(hist[t], 1, "remove_file"))
              /\ UNCHANGED disk
           \/ /\ disk[p].exists
              /\ Set(t, Return(inv[t], Ok),
                     Logged(Called(hist[t], 1), Event("remove", 0, NoPattern, "-")))
              /\ disk' = [disk EXCEPT ![p].exists = FALSE]
    /\ UNCHANGED shredder

\* faulty variant: removing a path that is already gone counts as success
remove_file_if_present(t) ==
    /\ inv[t].pc = "remove"
    /\ LET p == inv[t].path
       IN  \/ /\ ~disk[p].exists
              /\ Set(t, Return(inv[t], Ok), Called(hist[t], 1))
              /\ UNCHANGED disk
           \/ /\ disk[p].exists
              /\ \/ /\ Set(t, Return(inv[t], IoError("remove_file", "Other")),
                           Errored(hist[t], 1, "remove_file"))
                    /\ UNCHANGED disk
                 \/ /\ Set(t, Return(inv[t], Ok),
                           Logged(Called(hist[t], 1), Event("remove", 0, NoPattern, "-")))
                    /\ disk' = [disk EXCEPT ![p].exists = FALSE]
    /\ UNCHANGED shredder

\* std::fs::remove_file(path)?; Ok(())
remove_file(t) ==
    /\ inv[t].pc = "remove"
    /\ LET p == inv[t].path
       IN  \/ /\ ~disk[p].exists
              /\ Set(t, Return(inv[t], IoError("remove_file", "NotFound")),
                     Errored(hist[t], 1, "remove_file"))
              /\ UNCHANGED disk
           \/ /\ disk[p].exists
              /\ \/ /\ Set(t, Return(inv[t], IoError("remove_file", "Other")),
                           Errored(hist[t], 1, "remove_file"))
                    /\ UNCHANGED disk
                 \/ /\ Set(t, Return(inv[t], Ok),
                           Logged(Called(hist[t], 1), Event("remove", 0, NoPattern, "-")))
                    /\ disk' = [disk EXCEPT ![p].exists = FALSE]
    /\ UNCHANGED shredder

Next ==
    \/ \E size \in RequestedSizes : with_buffer_size(size)
    \/ \E t \in Threads, path \in Paths : wipe(t, path)
    \/ \E t \in Threads : wipe_again(t)
    \/ \E t \in Threads : Open(t)
    \/ \E t \in Threads : Metadata(t)
    \/ \E t \in Threads : handle_wear_leveling(t)
    \/ \E t \in Threads : perform_hardware_secure_erase(t)
    \/ \E t \in Threads : overwrite_start(t)
    \/ \E t \in Threads : overwrite_write_chunk(t)
    \/ \E t \in Threads : overwrite_verify_chunk(t)
    \/ \E t \in Threads : overwrite_sync(t)
    \/ \E t \in Threads : verify_wiping_start(t)
    \/ \E t \in Threads : verify_wiping_sample(t)
    \/ \E t \in Threads : verify_wiping_block(t)
    \/ \E t \in Threads : sync_all(t)
    \/ \E t \in Threads : remove_file(t)

Spec == Init /\ [][Next]_vars

\* the next step of a wipe that has been called and has not returned: wipe
\* runs to its return on the caller's thread, with no await and no lock,
\* so it keeps taking steps as long as each I/O call returns
Runs(t) ==
    \/ Open(t)
    \/ Metadata(t)
    \/ handle_wear_leveling(t)
    \/ perform_hardware_secure_erase(t)
    \/ overwrite_start(t)
    \/ overwrite_write_chunk(t)
    \/ overwrite_verify_chunk(t)
    \/ overwrite_sync(t)
    \/ verify_wiping_start(t)
    \/ verify_wiping_sample(t)
    \/ verify_wiping_block(t)
    \/ sync_all(t)
    \/ remove_file(t)

\* the program when every I/O call of a running wipe returns
SpecReturning == Init /\ [][Next]_vars /\ WF_vars(Runs(1))

\* ------------------------------------------------------------------------
\* One Shredder shared by concurrent wipes of different files
\* ------------------------------------------------------------------------

SharedPaths == {"f", "g"}
Workers == {1, 2}

\* two policies that between them take every step of a wipe
SharedConfigurations ==
    { << Modern("Purge", "Basic"), Storage("Ssd", Caps(TRUE, TRUE, TRUE, TRUE)) >>,
      << CustomStd(<< Custom(<< 170, 85 >>) >>, TRUE),
         Storage("Hdd", Caps(FALSE, TRUE, FALSE, FALSE)) >> }

InitShared ==
    /\ shredder \in {new(c[1], c[2]) : c \in SharedConfigurations}
    /\ disk = [p \in SharedPaths |->
                 [exists |-> TRUE, writable |-> TRUE, dirty |-> FALSE,
                  data |-> InitialData(IF p = "f" THEN 1 ELSE MaxSmallFile)]]
    /\ inv = [t \in Workers |-> IdleInv]
    /\ hist = [t \in Workers |-> NoHist]

\* a thread calls wipe on a file no other thread was given
wipe_own_file(t, path) ==
    /\ \A u \in Threads \ {t} : inv[u].pc # "idle" => inv[u].path # path
    /\ wipe(t, path)

NextShared ==
    \/ \E size \in RequestedSizes : with_buffer_size(size)
    \/ \E t \in Threads, path \in SharedPaths : wipe_own_file(t, path)
    \/ \E t \in Threads : Open(t)
    \/ \E t \in Threads : Metadata(t)
    \/ \E t \in Threads : handle_wear_leveling(t)
    \/ \E t \in Threads : perform_hardware_secure_erase(t)
    \/ \E t \in Threads : overwrite_start(t)
    \/ \E t \in Threads : overwrite_write_chunk(t)
    \/ \E t \in Threads : overwrite_verify_chunk(t)
    \/ \E t \in Threads : overwrite_sync(t)
    \/ \E t \in Threads : verify_wiping_start(t)
    \/ \E t \in Threads : verify_wiping_sample(t)
    \/ \E t \in Threads : verify_wiping_block(t)
    \/ \E t \in Threads : sync_all(t)
    \/ \E t \in Threads : remove_file(t)

SpecShared == InitShared /\ [][NextShared]_vars

\* ------------------------------------------------------------------------
\* Two threads wipe the same path
\* ------------------------------------------------------------------------

\* Each invocation has its own handle and file position on the one file;
\* a handle opened before the path was removed keeps reading and writing
\* the file's bytes, and the path itself can be removed once.
InitSamePath ==
    /\ shredder \in {new(c[1], c[2]) : c \in SharedConfigurations}
    /\ disk \in {[p \in Paths |->
                    [exists |-> TRUE, writable |-> TRUE, dirty |-> FALSE,
                     data |-> InitialData(n)]] : n \in 1..MaxSmallFile}
    /\ inv = [t \in Workers |-> IdleInv]
    /\ hist = [t \in Workers |-> NoHist]

NextSamePath ==
    \/ \E size \in RequestedSizes : with_buffer_size(size)
    \/ \E t \in Threads, path \in Paths : wipe(t, path)
    \/ \E t \in Threads : Open(t)
    \/ \E t \in Threads : Metadata(t)
    \/ \E t \in Threads : handle_wear_leveling(t)
    \/ \E t \in Threads : perform_hardware_secure_erase(t)
    \/ \E t \in Threads : overwrite_start(t)
    \/ \E t \in Threads : overwrite_write_chunk(t)
    \/ \E t \in Threads : overwrite_verify_chunk(t)
    \/ \E t \in Threads : overwrite_sync(t)
    \/ \E t \in Threads : verify_wiping_start(t)
    \/ \E t \in Threads : verify_wiping_sample(t)
    \/ \E t \in Threads : verify_wiping_block(t)
    \/ \E t \in Threads : sync_all(t)
    \/ \E t \in Threads : remove_file(t)

\* both threads keep running as long as their I/O calls return
SpecSamePath ==
    InitSamePath /\ [][NextSamePath]_vars /\ WF_vars(Runs(1)) /\ WF_vars(Runs(2))

\* ------------------------------------------------------------------------
\* Files of several pages wiped with a configured buffer size
\* ------------------------------------------------------------------------

TilingSizes == {k * MIN_BUFFER : k \in 1..MaxBlocks}

\* the sizes with_buffer_size is called with: a page, and a page and a byte
TilingRequests == {MIN_BUFFER, MIN_BUFFER + 1}

\* the policies whose verification reads the whole file
TilingConfigurations ==
    { << Modern("Clear", "Full"), Storage("Hdd", Caps(FALSE, TRUE, FALSE, FALSE)) >>,
      << Modern("Clear", "Enhanced"), Storage("Hdd", Caps(FALSE, TRUE, FALSE, FALSE)) >>,
      << CustomStd(<< Custom(<< 170, 85 >>) >>, TRUE),
         Storage("Hdd", Caps(FALSE, TRUE, FALSE, FALSE)) >> }

InitTiling ==
    /\ shredder \in {new(c[1], c[2]) : c \in TilingConfigurations}
    /\ disk \in [Paths -> {[exists |-> TRUE, writable |-> TRUE, dirty |-> FALSE,
                            data |-> InitialData(n)] : n \in TilingSizes}]
    /\ inv = [t \in {1} |-> IdleInv]
    /\ hist = [t \in {1} |-> NoHist]

NextTiling ==
    \/ \E size \in TilingRequests : with_buffer_size(size)
    \/ \E t \in Threads, path \in Paths : wipe(t, path)
    \/ \E t \in Threads : Open(t)
    \/ \E t \in Threads : Metadata(t)
    \/ \E t \in Threads : overwrite_start(t)
    \/ \E t \in Threads : overwrite_write_chunk(t)
    \/ \E t \in Threads : overwrite_verify_chunk(t)
    \/ \E t \in Threads : overwrite_sync(t)
    \/ \E t \in Threads : verify_wiping_start(t)
    \/ \E t \in Threads : verify_wiping_block(t)
    \/ \E t \in Threads : sync_all(t)
    \/ \E t \in Threads : remove_file(t)

SpecTiling == InitTiling /\ [][NextTiling]_vars

\* ------------------------------------------------------------------------
\* Files of a page and a few bytes verified by sampling
\* ------------------------------------------------------------------------

SamplingSizes == {1} \cup {MIN_BUFFER + k : k \in 0..MaxSlack}

\* the policies whose verification samples the file
SamplingConfigurations ==
    { << Modern("Clear", "Basic"), Storage("Hdd", Caps(FALSE, FALSE, FALSE, FALSE)) >>,
      << Legacy("Dod522022M", TRUE), Storage("Hdd", Caps(FALSE, FALSE, FALSE, FALSE)) >> }

InitSampling ==
    /\ shredder \in {new(c[1], c[2]) : c \in SamplingConfigurations}
    /\ disk \in [Paths -> {[exists |-> TRUE, writable |-> TRUE, dirty |-> FALSE,
                            data |-> InitialData(n)] : n \in SamplingSizes}]
    /\ inv = [t \in {1} |-> IdleInv]
    /\ hist = [t \in {1} |-> NoHist]

NextSampling ==
    \/ \E size \in {MIN_BUFFER} : with_buffer_size(size)
    \/ \E t \in Threads, path \in Paths : wipe(t, path)
    \/ \E t \in Threads : Open(t)
    \/ \E t \in Threads : Metadata(t)
    \/ \E t \in Threads : overwrite_start(t)
    \/ \E t \in Threads : overwrite_write_chunk(t)
    \/ \E t \in Threads : overwrite_verify_chunk(t)
    \/ \E t \in Threads : overwrite_sync(t)
    \/ \E t \in Threads : verify_wiping_start(t)
    \/ \E t \in Threads : verify_wiping_sample(t)
    \/ \E t \in Threads : verify_wiping_block(t)
    \/ \E t \in Threads : sync_all(t)
    \/ \E t \in Threads : remove_file(t)

SpecSampling == InitSampling /\ [][NextSampling]_vars

\* ------------------------------------------------------------------------
\* The pattern engine on a caller's buffer
\* ------------------------------------------------------------------------

\* the patterns a caller builds: every variant, Custom of each length up to
\* three and of none
PatternsUnderTest ==
    { Zeros, Ones, Random,
      Custom(<<>>), Custom(<< 7 >>), Custom(<< 1, 2 >>), Custom(<< 1, 2, 3 >>) }

\* the values a caller stores in its buffer
StoredBytes == {0, 1, 255}

\* what verify_buffer returned
Returned(b) ==
    [tag |-> "Value", op |-> "verify_buffer",
     detail |-> IF b THEN "true" ELSE "false", offset |-> 0]

\* a caller holds a pattern and a buffer `vec![0u8; L]`; no file is involved
InitPatterns ==
    /\ shredder \in {new(CustomStd(<< p >>, FALSE),
                          Storage("Hdd", Caps(FALSE, FALSE, FALSE, FALSE))) :
                      p \in PatternsUnderTest}
    /\ disk = [p \in Paths |->
                 [exists |-> FALSE, writable |-> FALSE, data |-> <<>>, dirty |-> FALSE]]
    /\ inv \in {[t \in {1} |->
                   [IdleInv EXCEPT !.pc = "buffer", !.plist = shredder.standard.passes,
                                   !.pidx = 1, !.buffer = [i \in 1..L |-> 0]]] :
                 L \in 0..MaxLen}
    /\ hist = [t \in {1} |-> NoHist]

\* pattern.fill_buffer(&mut buffer)
fill_buffer_call(t) ==
    /\ inv[t].pc = "buffer"
    /\ LET pattern == inv[t].plist[inv[t].pidx]
       IN  IF fill_panics(pattern)
           THEN Set(t, Return(inv[t], Panic("fill_buffer")), hist[t])
           ELSE \E s \in IF pattern.kind = "Random" THEN RandStreams ELSE {0} :
                  Set(t, [inv[t] EXCEPT
                             !.pc = "filled",
                             !.buffer = fill_buffer(pattern, Len(inv[t].buffer), s)],
                      Logged(hist[t], Event("fill", 1, pattern, "-")))
    /\ UNCHANGED << shredder, disk >>

\* buffer[i] = v, by the owner of the buffer
store_byte(t, i, v) ==
    /\ inv[t].pc \in {"buffer", "filled"}
    /\ i \in 1..Len(inv[t].buffer)
    /\ inv[t].buffer[i] # v
    /\ Set(t, [inv[t] EXCEPT !.pc = "stored", !.buffer[i] = v, !.pos = i],
            Logged(hist[t], Event("store", i, NoPattern, "-")))
    /\ UNCHANGED << shredder, disk >>

\* pattern.verify_buffer(&buffer)
verify_buffer_call(t) ==
    /\ inv[t].pc \in {"buffer", "filled", "stored"}
    /\ LET pattern == inv[t].plist[inv[t].pidx]
       IN  IF verify_panics(pattern)
           THEN Set(t, Return(inv[t], Panic("verify_buffer")), hist[t])
           ELSE Set(t, Return(inv[t], Returned(verify_buffer(pattern, inv[t].buffer))),
                    Logged(hist[t], Event("verify", 1, pattern, "-")))
    /\ UNCHANGED << shredder, disk >>

NextPatterns ==
    \/ \E t \in Threads : fill_buffer_call(t)
    \/ \E t \in Threads, i \in 1..MaxLen, v \in StoredBytes : store_byte(t, i, v)
    \/ \E t \in Threads : verify_buffer_call(t)

SpecPatterns == InitPatterns /\ [][NextPatterns]_vars

\* ------------------------------------------------------------------------
\* Every storage classification
\* ------------------------------------------------------------------------

\* the three variants with every combination of the four capability flags
AllStorageTypes ==
    { Storage(v, Caps(trim, se, nvme, wl)) :
        v \in {"Hdd", "Ssd", "Flash"}, trim \in BOOLEAN, se \in BOOLEAN,
        nvme \in BOOLEAN, wl \in BOOLEAN }

\* a Purge of a one-byte file on each of them
InitStorage ==
    /\ shredder \in {new(Modern("Purge", "None"), st) : st \in AllStorageTypes}
    /\ disk = [p \in Paths |->
                 [exists |-> TRUE, writable |-> TRUE, dirty |-> FALSE,
                  data |-> InitialData(1)]]
    /\ inv = [t \in {1} |-> IdleInv]
    /\ hist = [t \in {1} |-> NoHist]

NextStorage ==
    \/ \E t \in Threads, path \in Paths : wipe(t, path)
    \/ \E t \in Threads : Open(t)
    \/ \E t \in Threads : Metadata(t)
    \/ \E t \in Threads : handle_wear_leveling(t)
    \/ \E t \in Threads : perform_hardware_secure_erase(t)
    \/ \E t \in Threads : overwrite_start(t)
    \/ \E t \in Threads : overwrite_write_chunk(t)
    \/ \E t \in Threads : overwrite_verify_chunk(t)
    \/ \E t \in Threads : overwrite_sync(t)
    \/ \E t \in Threads : sync_all(t)
    \/ \E t \in Threads : remove_file(t)

SpecStorage == InitStorage /\ [][NextStorage]_vars

\* ------------------------------------------------------------------------
\* Configuring the buffer size of a new Shredder
\* ------------------------------------------------------------------------

\* the sizes a caller asks for: none, too small, the limits and their
\* neighbours, too large
BufferRequests ==
    { 0, 1024, MIN_BUFFER - 1, MIN_BUFFER, MIN_BUFFER + 1, DEFAULT_BUFFER,
      MAX_BUFFER - 1, MAX_BUFFER, MAX_BUFFER + 1, 2 * MAX_BUFFER }

\* Shredder::get_buffer_size
get_buffer_size == shredder.buffer_size

InitBuffer ==
    /\ shredder \in {new(c[1], c[2]) : c \in Configurations}
    /\ disk = [p \in Paths |->
                 [exists |-> TRUE, writable |-> TRUE, dirty |-> FALSE,
                  data |-> InitialData(1)]]
    /\ inv = [t \in {1} |-> IdleInv]
    /\ hist = [t \in {1} |-> NoHist]

NextBuffer == \E size \in BufferRequests : with_buffer_size(size)

SpecBuffer == InitBuffer /\ [][NextBuffer]_vars

\* ------------------------------------------------------------------------
\* verify_wiping at level Full and at level Enhanced on the same input
\* ------------------------------------------------------------------------

\* the sequences over S of lo to hi elements
SeqsOver(S, lo, hi) == UNION {[1..n -> S] : n \in lo..hi}

\* the file contents and the expected pattern buffers verify_wiping is given
ScannedFiles == SeqsOver({0, 1}, 0, MaxScan)
ExpectedBuffers == SeqsOver({0, 1}, 1, 2)

\* worker 1 enters verify_wiping(file, expected, Full) on f, worker 2
\* verify_wiping(file, expected, Enhanced) on g; f and g hold the same bytes
InitLevels ==
    /\ shredder = new(Modern("Clear", "Full"), Storage("Hdd", Caps(FALSE, FALSE, FALSE, FALSE)))
    /\ disk \in {[p \in SharedPaths |->
                    [exists |-> TRUE, writable |-> TRUE, dirty |-> FALSE, data |-> d]] :
                  d \in ScannedFiles}
    /\ inv \in {[t \in Workers |->
                   [IdleInv EXCEPT !.path = IF t = 1 THEN "f" ELSE "g",
                                   !.file_size = Len(disk["f"].data),
                                   !.buffer = b,
                                   !.pc = "verify_start",
                                   !.vlevel = IF t = 1 THEN "Full" ELSE "Enhanced",
                                   !.vkind = "final"]] :
                 b \in ExpectedBuffers}
    /\ hist = [t \in Workers |-> NoHist]

NextLevels ==
    \/ \E t \in Threads : verify_wiping_start(t)
    \/ \E t \in Threads : verify_wiping_block(t)

SpecLevels == InitLevels /\ [][NextLevels]_vars

\* ------------------------------------------------------------------------
\* The pattern-buffer size for files of every magnitude
\* ------------------------------------------------------------------------

\* file lengths around each threshold of the computation, up to 2 GB
MeasuredSizes ==
    { 0, 1, 2, min_buffer - 1, min_buffer, min_buffer + 1,
      100 * min_buffer - 1, 100 * min_buffer, 100 * min_buffer + 100, 1000000,
      100 * max_buffer - 1, 100 * max_buffer, 100 * max_buffer + 100, 2000000000 }

\* what calculate_optimal_buffer_size returned
Sized(n) ==
    [tag |-> "Value", op |-> "calculate_optimal_buffer_size", detail |-> "-", offset |-> n]

\* a Shredder and the length file.metadata() reported
InitSizing ==
    /\ shredder = new(Modern("Clear", "None"), Storage("Hdd", Caps(FALSE, FALSE, FALSE, FALSE)))
    /\ disk = [p \in Paths |->
                 [exists |-> TRUE, writable |-> TRUE, dirty |-> FALSE, data |-> <<>>]]
    /\ inv \in {[t \in {1} |-> [IdleInv EXCEPT !.file_size = n]] : n \in MeasuredSizes}
    /\ hist = [t \in {1} |-> NoHist]

\* self.calculate_optimal_buffer_size(file_size)
calculate_optimal_buffer_size_call(t) ==
    /\ inv[t].pc = "idle"
    /\ Set(t, Return(inv[t], Sized(calculate_optimal_buffer_size(inv[t].file_size))),
            hist[t])
    /\ UNCHANGED << shredder, disk >>

NextSizing ==
    \/ \E size \in BufferRequests : with_buffer_size(size)
    \/ \E t \in Threads : calculate_optimal_buffer_size_call(t)

SpecSizing == InitSizing /\ [][NextSizing]_vars

\* ------------------------------------------------------------------------
\* The Linux hardware secure-erase collaborator
\* ------------------------------------------------------------------------

\* what the code asks of the path it is given: whether file_name() is
\* there and valid UTF-8, and whether the whole path is (to_str())
ErasePaths ==
    { [file_name |-> "utf8", utf8 |-> TRUE],      \* /data/secret.bin
      [file_name |-> "utf8", utf8 |-> FALSE],     \* /data/<0xFF>/secret.bin
      [file_name |-> "other", utf8 |-> FALSE],    \* /data/<0xFF>.bin
      [file_name |-> "none", utf8 |-> TRUE] }     \* /

\* how a spawned command ends: Command::output() fails, or the exit status
CommandResults == {"spawn_failed", "exit_failure", "exit_success"}

\* the callers: perform_modern_wipe calls the collaborator only for Purge
\* on a storage type that supports secure erase
InitSecureErase ==
    /\ shredder \in {new(c[1], c[2]) : c \in
                        {d \in Configurations :
                            /\ d[1].variant = "Modern"
                            /\ d[1].method = "Purge"
                            /\ supports_secure_erase(d[2])}}
    /\ disk = [p \in Paths |->
                 [exists |-> TRUE, writable |-> TRUE, dirty |-> FALSE,
                  data |-> InitialData(1)]]
    /\ inv = [t \in {1} |-> IdleInv]
    /\ hist = [t \in {1} |-> NoHist]

\* perform_secure_erase up to the privilege check: libc::geteuid() != 0
perform_secure_erase(t, path) ==
    /\ inv[t].pc = "idle"
    /\ \E euid \in {0, 1000} :
          IF euid # 0
          THEN Set(t, Return([inv[t] EXCEPT !.path = path],
                             UnsupportedOperation("Root privileges required")),
                   Logged(Called(hist[t], 1), Event("not_root", 0, NoPattern, "-")))
          ELSE Set(t, [inv[t] EXCEPT !.path = path, !.pc = "is_system_disk"],
                   Logged(Called(hist[t], 1), Event("root", 0, NoPattern, "-")))
    /\ UNCHANGED << shredder, disk >>

\* is_linux_system_disk(path)?: /proc/mounts cannot be read, has no line
\* for "/", or names the root device, which is or is not the target
is_linux_system_disk(t) ==
    /\ inv[t].pc = "is_system_disk"
    /\ \/ Set(t, Return(inv[t], IoError("read_to_string", "Other")),
              Errored(hist[t], 1, "read_to_string"))
       \/ Set(t, Return(inv[t], IoError("is_linux_system_disk", "NotFound")),
              Errored(hist[t], 1, "is_linux_system_disk"))
       \/ Set(t, Return(inv[t], UnsupportedOperation("Cannot securely erase the system disk")),
              Logged(Called(hist[t], 1), Event("system_disk", 0, NoPattern, "-")))
       \/ Set(t, [inv[t] EXCEPT !.pc = "device_info"],
              Logged(Called(hist[t], 1), Event("other_disk", 0, NoPattern, "-")))
    /\ UNCHANGED << shredder, disk >>

\* get_linux_device_info(path)?, then `if device_info.contains("NVMe")`
get_linux_device_info(t) ==
    /\ inv[t].pc = "device_info"
    /\ IF inv[t].path.file_name # "utf8"
       THEN Set(t, Return(inv[t], IoError("get_linux_device_info", "InvalidInput")),
                Errored(hist[t], 1, "get_linux_device_info"))
       ELSE \E transport \in {"NVMe", "ATA", ""} :
              Set(t, [inv[t] EXCEPT !.pc = IF transport = "NVMe" THEN "nvme" ELSE "hdparm"],
                  Logged(Called(hist[t], 1), Event("device", 0, NoPattern, transport)))
    /\ UNCHANGED << shredder, disk >>

\* Command::new("nvme").args(["format", path.to_str().unwrap()]).output():
\* Ok(()) when it ran and exited with success, on to hdparm otherwise
nvme_format(t) ==
    /\ inv[t].pc = "nvme"
    /\ IF ~inv[t].path.utf8
       THEN Set(t, Return(inv[t], Panic("to_str().unwrap()")), hist[t])
       ELSE \E r \in CommandResults :
              Set(t, IF r = "exit_success"
                     THEN Return(inv[t], Ok)
                     ELSE [inv[t] EXCEPT !.pc = "hdparm"],
                  Logged(Called(hist[t], 1), Event("nvme", 0, NoPattern, r)))
    /\ UNCHANGED << shredder, disk >>

\* Command::new("hdparm").args(["--security-erase",
\* path.to_str().unwrap()]).output()?, then the exit status
hdparm_security_erase(t) ==
    /\ inv[t].pc = "hdparm"
    /\ IF ~inv[t].path.utf8
       THEN Set(t, Return(inv[t], Panic("to_str().unwrap()")), hist[t])
       ELSE \E r \in CommandResults :
              Set(t, Return(inv[t],
                            CASE r = "exit_success" -> Ok
                              [] r = "spawn_failed" -> IoError("hdparm", "Other")
                              [] OTHER -> UnsupportedOperation("stderr")),
                  Logged(Called(hist[t], 1), Event("hdparm", 0, NoPattern, r)))
    /\ UNCHANGED << shredder, disk >>

NextSecureErase ==
    \/ \E t \in Threads, path \in ErasePaths : perform_secure_erase(t, path)
    \/ \E t \in Threads : is_linux_system_disk(t)
    \/ \E t \in Threads : get_linux_device_info(t)
    \/ \E t \in Threads : nvme_format(t)
    \/ \E t \in Threads : hdparm_security_erase(t)

SpecSecureErase == InitSecureErase /\ [][NextSecureErase]_vars

\* ------------------------------------------------------------------------
\* Reading the history
\* ------------------------------------------------------------------------

Evs(t) == hist[t].events
EvNames(t) == [i \in 1..Len(Evs(t)) |-> Evs(t)[i].ev]
Has(t, ev) == \E i \in 1..Len(Evs(t)) : Evs(t)[i].ev = ev
PassEvents(t) == SelectSeq(Evs(t), LAMBDA e : e.ev = "pass")
PassPatterns(t) == [i \in 1..Len(PassEvents(t)) |-> PassEvents(t)[i].pat]
VerifyEvents(t) == SelectSeq(Evs(t), LAMBDA e : e.ev = "verify")
VerifyLevels(t) == [i \in 1..Len(VerifyEvents(t)) |-> VerifyEvents(t)[i].lvl]
IsPrefix(a, b) == Len(a) <= Len(b) /\ a = SubSeq(b, 1, Len(a))

Succeeded(t) == inv[t].pc = "done" /\ inv[t].result.tag = "Ok"
Failed(t) == inv[t].result.tag \in {"Io", "VerificationFailed", "UnsupportedOperation"}
InPass(t) == inv[t].pc \in {"pass_start", "chunk_write", "chunk_verify", "pass_sync"}
InVerify(t) == inv[t].pc \in {"verify_start", "verify_basic", "verify_full"}
PastPasses(t) ==
    \/ InVerify(t) /\ inv[t].vkind = "final"
    \/ inv[t].pc \in {"sync", "remove"}
    \/ Succeeded(t)

\* the pass sequence section 4.4 step 4 gives a standard (the software
\* sequence, for Purge)
PlannedPasses(std) ==
    CASE std.variant = "Modern" /\ std.method = "Clear" -> << Random >>
      [] std.variant = "Modern" /\ std.method = "Purge" -> << Random, Zeros, Ones, Random >>
      [] std.variant = "Legacy" -> get_patterns(std.legacy)
      [] std.variant = "Custom" -> std.passes

\* the verifications section 4.4 step 6 gives a standard that runs n passes
PlannedVerifications(std, n) ==
    CASE std.variant = "Modern" ->
           IF std.verify_level = "None" THEN <<>> ELSE << std.verify_level >>
      [] std.variant = "Legacy" ->
           IF std.extra_verification
           THEN [i \in 1..(n + 1) |-> IF i <= n THEN "Basic" ELSE "Full"]
           ELSE <<>>
      [] std.variant = "Custom" ->
           IF std.verify_each_pass THEN [i \in 1..n |-> "Full"] ELSE <<>>

\* ------------------------------------------------------------------------
\* C1: if wipe returns success, the path no longer exists
\* ------------------------------------------------------------------------

\* C1: for every standard variant, storage type and file, a wipe that
\* returned Ok has left no file at its path.
C1_SuccessImpliesRemoved ==
    \A t \in Threads : Succeeded(t) => ~disk[inv[t].path].exists

C1_Witness ==
    \E t \in Threads :
        /\ Succeeded(t)
        /\ inv[t].file_size > MIN_BUFFER
        /\ shredder.standard.variant = "Legacy"

\* ------------------------------------------------------------------------
\* C2: removal only after every preceding step succeeded
\* ------------------------------------------------------------------------

\* every step before the removal has returned success
StepsBeforeRemovalDone(t) ==
    LET std == shredder.standard
        st == shredder.storage_type
        n == Len(PassEvents(t))
    IN  /\ inv[t].pc = "remove"
        /\ Len(Evs(t)) >= 3
        /\ Evs(t)[1].ev = "open" /\ Evs(t)[2].ev = "metadata"
        /\ Evs(t)[Len(Evs(t))].ev = "sync"
        /\ \A i \in 1..Len(hist[t].errors) :
              hist[t].errors[i].op \in {"perform_secure_erase", "read_exact_eof"}
        /\ \/ Has(t, "hw_ok")
           \/ PassPatterns(t) = PlannedPasses(std) /\ hist[t].fullPasses = n
        /\ VerifyLevels(t) = PlannedVerifications(std, n)

\* C2: the step that removes the path is taken only after open, the size
\* read, TRIM handling, every pass, every configured verification and the
\* final sync_all returned success; a wipe that returns an error has not
\* removed the file and the path exists as it did before.
C2_RemoveOnlyAfterAllSteps ==
    [][\A t \in Threads :
          LET p == inv[t].path
          IN  /\ (disk'[p].exists # disk[p].exists) =>
                    /\ StepsBeforeRemovalDone(t)
                    /\ inv'[t].result.tag = "Ok"
              /\ (Failed(t)' /\ ~Failed(t)) =>
                    /\ disk'[p].exists = disk[p].exists
                    /\ ~Has(t, "remove")
                    /\ inv[t].pc # "idle" /\ inv'[t].pc = "done"]_vars

C2_Witness ==
    \E t \in Threads :
        /\ Succeeded(t)
        /\ Has(t, "trim")
        /\ Has(t, "hw_failed")
        /\ Len(VerifyEvents(t)) = 1

\* ------------------------------------------------------------------------
\* C3: never removed without having been overwritten
\* ------------------------------------------------------------------------

\* C3: for every standard and every non-empty file, a wipe that returned Ok
\* has, before the removal, either completed an overwrite pass that wrote
\* every offset of the file or had the hardware erase return success.
C3_RemovedOnlyIfOverwritten ==
    \A t \in Threads :
        (Succeeded(t) /\ inv[t].file_size > 0) =>
            (hist[t].fullPasses >= 1 \/ Has(t, "hw_ok"))

\* ------------------------------------------------------------------------
\* C4: errors are returned immediately; only the hardware failure is not
\* ------------------------------------------------------------------------

\* error i of the history is the last thing the wipe did and is its result
ReturnedImmediately(t, i) ==
    LET h == hist[t]
    IN  /\ i = Len(h.errors)
        /\ h.errors[i].at = h.ioCount
        /\ inv[t].pc = "done"
        /\ Failed(t)
        /\ inv[t].result.op = h.errors[i].op
        /\ ~Has(t, "remove")

\* error i of the history was not returned: the wipe went on after it
Superseded(t, i) ==
    LET h == hist[t]
    IN  /\ inv[t].result.op # h.errors[i].op
        /\ h.errors[i].at < h.ioCount \/ inv[t].pc # "done"

\* C4 as stated: every error produced inside a wipe, except a failure of
\* the hardware erase, is the last thing the wipe did: no call follows it,
\* it is the result returned, and nothing was removed.
C4_OnlyHardwareFailureNotReturned ==
    \A t \in Threads :
        \A i \in 1..Len(hist[t].errors) :
            hist[t].errors[i].op # "perform_secure_erase" => ReturnedImmediately(t, i)

\* C4: every error produced inside a wipe is the last thing the wipe did
\* and is the result returned, with nothing removed, except two: a failure
\* of the hardware erase, which the software passes follow, and the
\* UnexpectedEof by which read_exact ends the loop of a Full or Enhanced
\* verification, after which that verification counts as passed.  Neither
\* is ever the result returned, and a wipe that failed returns its last
\* error.
C4_ErrorsReturnedImmediately ==
    \A t \in Threads :
        LET h == hist[t]
            n == Len(h.errors)
        IN  /\ \A i \in 1..n :
                  CASE h.errors[i].op = "perform_secure_erase" ->
                         /\ inv[t].result.op # "perform_secure_erase"
                         /\ Has(t, "hw_failed")
                    [] h.errors[i].op = "read_exact_eof" ->
                         /\ inv[t].result.op # "read_exact_eof"
                         /\ \E k \in 1..Len(VerifyEvents(t)) :
                               VerifyEvents(t)[k].lvl \in {"Full", "Enhanced"}
                    [] OTHER -> ReturnedImmediately(t, i)
            /\ Failed(t) => (n >= 1 /\ h.errors[n].op = inv[t].result.op)

C4_Witness ==
    \E t \in Threads :
        /\ Len(hist[t].errors) = 3
        /\ hist[t].errors[1].op = "perform_secure_erase"
        /\ hist[t].errors[2].op = "read_exact_eof"
        /\ Superseded(t, 1) /\ Superseded(t, 2)
        /\ ReturnedImmediately(t, 3)
        /\ Len(PassEvents(t)) = 4

\* ------------------------------------------------------------------------
\* C5: Modern/Purge: hardware erase iff supported, else the four passes
\* ------------------------------------------------------------------------

HwCalls(t) == Len(SelectSeq(Evs(t), LAMBDA e : e.ev \in {"hw_ok", "hw_failed"}))
IsPurge == shredder.standard.variant = "Modern" /\ shredder.standard.method = "Purge"

\* C5: in a Modern/Purge wipe the hardware collaborator is invoked exactly
\* when the storage type supports secure erase; the software passes run are
\* always a prefix of [Random, Zeros, Ones, Random] and are all four once
\* the wipe is past its passes after a failed or an absent hardware erase;
\* no software pass runs after a successful hardware erase.
C5_PurgeHardwareThenFallback ==
    \A t \in Threads :
        IsPurge =>
            LET st == shredder.storage_type
                pp == PassPatterns(t)
                four == << Random, Zeros, Ones, Random >>
            IN  /\ HwCalls(t) <= 1
                /\ HwCalls(t) = 1 => supports_secure_erase(st)
                /\ (inv[t].pidx >= 1 \/ PastPasses(t)) =>
                      (HwCalls(t) = 1 <=> supports_secure_erase(st))
                /\ IsPrefix(pp, four)
                /\ InPass(t) => (inv[t].pidx = Len(pp) + 1 /\ inv[t].plist = four)
                /\ Has(t, "hw_ok") => (pp = <<>> /\ inv[t].pidx = 0)
                /\ (PastPasses(t) /\ ~Has(t, "hw_ok")) => pp = four

C5_Witness ==
    \E t \in Threads :
        /\ IsPurge
        /\ Has(t, "hw_failed")
        /\ PassPatterns(t) = << Random, Zeros, Ones, Random >>
        /\ Succeeded(t)

\* ------------------------------------------------------------------------
\* C6: after a failed hardware erase, removal only after fallback + verify
\* ------------------------------------------------------------------------

\* C6: when the hardware erase failed, the file is removed only after the
\* four fallback passes each covered the whole file and then the configured
\* verification (if not None) passed, followed by the sync; an error in a
\* fallback pass or in that verification is returned and the file stays.
C6_FallbackCompletesBeforeRemoval ==
    \A t \in Threads :
        Has(t, "hw_failed") =>
            LET names == EvNames(t)
                k == CHOOSE i \in 1..Len(names) : names[i] = "hw_failed"
                tail == SubSeq(names, k + 1, Len(names))
                level == shredder.standard.verify_level
                passes == << "pass", "pass", "pass", "pass" >>
                verify == IF level = "None" THEN <<>> ELSE << "verify" >>
            IN  /\ Has(t, "remove") =>
                      /\ tail = passes \o verify \o << "sync", "remove" >>
                      /\ hist[t].fullPasses = 4
                      /\ VerifyLevels(t) = (IF level = "None" THEN <<>> ELSE << level >>)
                /\ ~disk[inv[t].path].exists => Has(t, "remove")
                /\ Failed(t) =>
                      /\ disk[inv[t].path].exists
                      /\ ~Has(t, "remove")
                      /\ inv[t].pc = "done"

C6_Witness ==
    \E t \in Threads :
        /\ Has(t, "hw_failed")
        /\ Has(t, "remove")
        /\ VerifyLevels(t) = << "Enhanced" >>
        /\ inv[t].file_size > MIN_BUFFER

\* ------------------------------------------------------------------------
\* C7: Modern/Clear is exactly one Random pass
\* ------------------------------------------------------------------------

\* C7: a Modern/Clear wipe that returned Ok executed exactly one overwrite
\* pass, with the Random pattern, over the whole file.
C7_ClearIsOneRandomPass ==
    \A t \in Threads :
        (shredder.standard.variant = "Modern" /\ shredder.standard.method = "Clear"
            /\ Succeeded(t)) =>
            /\ PassEvents(t) = << Event("pass", 1, Random, "-") >>
            /\ hist[t].fullPasses = 1

C7_Witness ==
    \E t \in Threads :
        /\ shredder.standard.variant = "Modern" /\ shredder.standard.method = "Clear"
        /\ Succeeded(t)
        /\ inv[t].file_size > 0

\* ------------------------------------------------------------------------
\* C8: Legacy and Custom run exactly their pass sequence, pass by pass
\* ------------------------------------------------------------------------

\* C8: in a Legacy wipe the passes completed are, in order, the first ones
\* of get_patterns(), in a Custom wipe of the caller's list, one pass per
\* element; each pass fills its buffer from its own element and keeps it
\* while it writes, a chunk is written only by the pass that follows the
\* completed ones, a pass completes only when it has written the whole
\* file, and a wipe that returned Ok completed as many passes as the
\* sequence has elements.
C8_PassesInSequence ==
    [][\A t \in Threads :
          shredder.standard.variant \in {"Legacy", "Custom"} =>
              LET std == shredder.standard
                  seq == IF std.variant = "Legacy"
                         THEN get_patterns(std.legacy) ELSE std.passes
                  done == PassEvents(t)
                  after == PassEvents(t)'
                  p == inv[t].path
              IN  /\ IsPrefix(PassPatterns(t)', seq)
                  /\ \A i \in 1..Len(after) : after[i].idx = i
                  /\ hist'[t].fullPasses = Len(after)
                  /\ Succeeded(t)' => Len(after) = Len(seq)
                  /\ (inv[t].pc = "pass_start" /\ inv'[t].pc \in {"chunk_write", "pass_sync"}) =>
                        /\ inv[t].pidx = Len(done) + 1
                        /\ inv'[t].buffer \in
                              {fill_buffer(seq[inv[t].pidx], Len(inv[t].buffer), s) :
                                  s \in RandStreams}
                  /\ (inv[t].pc \in {"chunk_write", "chunk_verify"}) =>
                        /\ inv'[t].buffer = inv[t].buffer
                        /\ inv'[t].pidx = inv[t].pidx
                  /\ (disk'[p].data # disk[p].data) =>
                        /\ inv[t].pc = "chunk_write"
                        /\ inv[t].pidx = Len(done) + 1
                  /\ (Len(after) > Len(done)) =>
                        /\ Len(after) = Len(done) + 1
                        /\ inv[t].written = inv[t].file_size
                        /\ hist[t].covered = inv[t].file_size]_vars

C8_Witness ==
    \E t \in Threads :
        /\ shredder.standard.variant = "Custom"
        /\ Len(shredder.standard.passes) = 3
        /\ Succeeded(t)
        /\ inv[t].file_size > MIN_BUFFER
        /\ shredder.buffer_size = MIN_BUFFER

\* ------------------------------------------------------------------------
\* C9: immediate per-chunk readback
\* ------------------------------------------------------------------------

\* the first n bytes of the endless repetition of a non-empty buffer
RECURSIVE Tiled(_, _)
Tiled(buffer, n) ==
    IF n <= Len(buffer)
    THEN SubSeq(buffer, 1, n)
    ELSE buffer \o Tiled(buffer, n - Len(buffer))

\* C9: a chunk is read back, after its write and flush, from the offset it
\* was written at and compared byte for byte with what was written: when
\* the step that follows the write raises no I/O error, it stops the wipe
\* with VerificationFailed naming the chunk's start offset if the file holds
\* anything else there, and otherwise moves on by the chunk's size; after a
\* failed readback nothing more is written and the file is not removed.
C9_ChunkReadback ==
    [][\A t \in Threads :
          LET iv == inv[t]
              p == iv.path
              ws == Min(iv.file_size - iv.written, shredder.buffer_size)
              stored == SubSeq(disk[p].data, iv.written + 1, iv.written + ws)
              sent == Tiled(iv.buffer, ws)
          IN  /\ (iv.pc = "chunk_write" /\ inv'[t].pc = "chunk_verify") =>
                    /\ iv.pos = iv.written
                    /\ hist'[t].ioCount = hist[t].ioCount + 2
              /\ (iv.pc = "chunk_verify" /\ inv'[t] # iv
                    /\ inv'[t].result.tag # "Io") =>
                    /\ ws >= 1
                    /\ hist'[t].ioCount = hist[t].ioCount + 2
                    /\ IF stored # sent
                       THEN /\ inv'[t].pc = "done"
                            /\ inv'[t].result = VerificationFailed("Immediate", iv.written)
                       ELSE /\ inv'[t].result.tag = "None"
                            /\ inv'[t].written = iv.written + ws
              /\ (inv'[t].result.tag = "VerificationFailed") =>
                    /\ disk' = disk
                    /\ inv'[t].pc = "done"
                    /\ disk'[p].exists]_vars

C9_Witness ==
    \E t \in Threads :
        /\ inv[t].result.tag = "VerificationFailed"
        /\ inv[t].result.detail = "Immediate"
        /\ inv[t].result.offset = MIN_BUFFER
        /\ Len(PassEvents(t)) = 2

\* ------------------------------------------------------------------------
\* C10: Legacy extra_verification
\* ------------------------------------------------------------------------

\* C10: in a Legacy wipe with extra_verification the completed steps after
\* the size read alternate pass, Basic verification, ..., end with one Full
\* verification after the last pass, and a pass starts only when every
\* earlier pass has had its Basic verification; without extra_verification
\* no verification ever runs.
C10_LegacyExtraVerification ==
    \A t \in Threads :
        shredder.standard.variant = "Legacy" =>
            LET std == shredder.standard
                n == Len(get_patterns(std.legacy))
                body == SelectSeq(Evs(t), LAMBDA e : e.ev \in {"pass", "verify"})
                expected == [i \in 1..(2 * n + 1) |->
                               IF i = 2 * n + 1 THEN Event("verify", n, NoPattern, "Full")
                               ELSE IF i % 2 = 1
                               THEN Event("pass", (i + 1) \div 2,
                                          get_patterns(std.legacy)[(i + 1) \div 2], "-")
                               ELSE Event("verify", i \div 2, NoPattern, "Basic")]
            IN  IF std.extra_verification
                THEN /\ IsPrefix(body, expected)
                     /\ InPass(t) => Len(body) = 2 * (inv[t].pidx - 1)
                     /\ (InVerify(t) /\ inv[t].vkind = "pass") =>
                           (inv[t].vlevel = "Basic" /\ Len(body) = 2 * inv[t].pidx - 1)
                     /\ (InVerify(t) /\ inv[t].vkind = "final") =>
                           (inv[t].vlevel = "Full" /\ Len(body) = 2 * n)
                     /\ (inv[t].pc \in {"sync", "remove"} \/ Succeeded(t)) =>
                           body = expected
                ELSE /\ VerifyEvents(t) = <<>>
                     /\ ~InVerify(t)
                     /\ (inv[t].result.tag = "VerificationFailed"
                           => inv[t].result.detail = "Immediate")

C10_Witness ==
    \E t \in Threads :
        /\ shredder.standard.variant = "Legacy"
        /\ shredder.standard.legacy = "Dod522022M"
        /\ shredder.standard.extra_verification
        /\ Succeeded(t)
        /\ inv[t].file_size > MIN_BUFFER

\* ------------------------------------------------------------------------
\* C11: Custom verify_each_pass
\* ------------------------------------------------------------------------

\* C11: in a Custom wipe with verify_each_pass the completed passes and
\* verifications alternate pass, Full verification, pass, ...; a pass starts
\* only when every earlier pass has had its Full verification, and the
\* verification of a pass compares the file with the buffer that pass was
\* filled from; without verify_each_pass no verification ever runs.
C11_CustomVerifyEachPass ==
    \A t \in Threads :
        shredder.standard.variant = "Custom" =>
            LET std == shredder.standard
                n == Len(std.passes)
                body == SelectSeq(Evs(t), LAMBDA e : e.ev \in {"pass", "verify"})
                expected == [i \in 1..(2 * n) |->
                               IF i % 2 = 1
                               THEN Event("pass", (i + 1) \div 2,
                                          std.passes[(i + 1) \div 2], "-")
                               ELSE Event("verify", i \div 2, NoPattern, "Full")]
            IN  IF std.verify_each_pass
                THEN /\ IsPrefix(body, expected)
                     /\ InPass(t) => Len(body) = 2 * (inv[t].pidx - 1)
                     /\ InVerify(t) =>
                           /\ inv[t].vkind = "pass" /\ inv[t].vlevel = "Full"
                           /\ Len(body) = 2 * inv[t].pidx - 1
                           /\ inv[t].buffer \in
                                 {fill_buffer(std.passes[inv[t].pidx], Len(inv[t].buffer), s) :
                                     s \in RandStreams}
                     /\ (inv[t].pc \in {"sync", "remove"} \/ Succeeded(t)) =>
                           body = expected
                ELSE /\ VerifyEvents(t) = <<>>
                     /\ ~InVerify(t)
                     /\ (inv[t].result.tag = "VerificationFailed"
                           => inv[t].result.detail = "Immediate")

C11_Witness ==
    \E t \in Threads :
        /\ shredder.standard.variant = "Custom"
        /\ shredder.standard.verify_each_pass
        /\ Len(shredder.standard.passes) = 3
        /\ Len(VerifyEvents(t)) = 3
        /\ Succeeded(t)
        /\ inv[t].file_size > MIN_BUFFER

\* ------------------------------------------------------------------------
\* C12: Modern verifies once, after the passes and before the sync
\* ------------------------------------------------------------------------

\* C12: in a Modern wipe verify_wiping runs at most once, at the configured
\* level, only when every planned pass is complete or the hardware erase
\* succeeded, and nothing but the sync and the removal follows it; a wipe
\* that reaches the sync has verified exactly once, or never when the level
\* is None, and then no verification step is ever taken.
C12_ModernVerifiesOnce ==
    \A t \in Threads :
        shredder.standard.variant = "Modern" =>
            LET std == shredder.standard
                level == std.verify_level
                evs == Evs(t)
                passesDone == \/ Has(t, "hw_ok") /\ PassEvents(t) = <<>>
                              \/ PassPatterns(t) = PlannedPasses(std)
            IN  /\ Len(VerifyEvents(t)) <= 1
                /\ \A i \in 1..Len(evs) :
                      evs[i].ev = "verify" =>
                          /\ evs[i].lvl = level
                          /\ \A j \in (i + 1)..Len(evs) : evs[j].ev \in {"sync", "remove"}
                          /\ \A j \in 1..(i - 1) : evs[j].ev \notin {"sync", "remove"}
                /\ InVerify(t) =>
                      /\ inv[t].vkind = "final" /\ inv[t].vlevel = level
                      /\ level # "None"
                      /\ passesDone
                      /\ VerifyEvents(t) = <<>>
                      /\ ~Has(t, "sync")
                /\ (inv[t].pc \in {"sync", "remove"} \/ Succeeded(t)) =>
                      /\ passesDone
                      /\ VerifyLevels(t) = (IF level = "None" THEN <<>> ELSE << level >>)
                /\ level = "None" => (VerifyEvents(t) = <<>> /\ ~InVerify(t))

C12_Witness ==
    \E t \in Threads :
        /\ shredder.standard.variant = "Modern"
        /\ Has(t, "hw_ok")
        /\ VerifyLevels(t) = << "Full" >>
        /\ Succeeded(t)
        /\ inv[t].file_size > MIN_BUFFER

\* ------------------------------------------------------------------------
\* C13: TRIM before the first write, for every standard variant
\* ------------------------------------------------------------------------

\* an overwrite write of this invocation has reached the file
WriteIssued(t) ==
    \/ inv[t].pc \in {"chunk_verify", "pass_sync"} /\ inv[t].file_size > 0
    \/ hist[t].covered > 0
    \/ Len(PassEvents(t)) > 0 /\ inv[t].file_size > 0

\* C13: whatever the standard variant, when the storage type requires
\* wear-leveling handling, no overwrite write reaches the file unless the
\* TRIM collaborator was invoked (and returned) after the open.
C13_TrimBeforeFirstWrite ==
    \A t \in Threads :
        (requires_wear_leveling_handling(shredder.storage_type) /\ WriteIssued(t)) =>
            \E i \in 1..Len(Evs(t)) :
                /\ Evs(t)[i].ev = "trim"
                /\ \E j \in 1..(i - 1) : Evs(t)[j].ev = "open"

\* ------------------------------------------------------------------------
\* C14: a failed TRIM ends the wipe
\* ------------------------------------------------------------------------

\* C14: when the TRIM collaborator was invoked and failed, the wipe is over
\* with that error as its result, no overwrite pass wrote anything and no
\* hardware erase was called, the file holds what it held before the wipe
\* and still exists.
C14_TrimFailureIsFatal ==
    \A t \in Threads :
        (\E i \in 1..Len(hist[t].errors) : hist[t].errors[i].op = "perform_trim") =>
            LET f == disk[inv[t].path]
            IN  /\ inv[t].pc = "done"
                /\ inv[t].result = IoError("perform_trim", "Other")
                /\ Len(hist[t].errors) = 1
                /\ EvNames(t) = << "open", "metadata" >>
                /\ HwCalls(t) = 0
                /\ ~WriteIssued(t)
                /\ f.exists
                /\ f.data = InitialData(Len(f.data))
                /\ Len(f.data) = inv[t].file_size

C14_Witness ==
    \E t \in Threads :
        /\ inv[t].result = IoError("perform_trim", "Other")
        /\ shredder.standard.method = "Purge"
        /\ supports_secure_erase(shredder.storage_type)
        /\ inv[t].file_size > MIN_BUFFER

\* ------------------------------------------------------------------------
\* C15: write, verify, sync, remove, in that order
\* ------------------------------------------------------------------------

\* the steps a wipe completed after its last pass (after the hardware
\* erase or the size read when no pass ran)
AfterLastPass(t) ==
    LET names == EvNames(t)
        final == {"verify", "sync", "remove"}
        last == IF \E i \in 1..Len(names) : names[i] \notin final
                THEN CHOOSE i \in 1..Len(names) :
                        /\ names[i] \notin final
                        /\ \A j \in (i + 1)..Len(names) : names[j] \in final
                ELSE 0
    IN  SubSeq(names, last + 1, Len(names))

\* no overwrite write can follow: the wipe is in its final verification,
\* at the sync, at the removal or has returned
WritesOver(t) ==
    \/ InVerify(t) /\ inv[t].vkind = "final"
    \/ inv[t].pc \in {"sync", "remove", "done"}

\* C15: a wipe that returned Ok ends, after its last pass, with the
\* verifications of that pass, then sync, then remove; the removal step is
\* taken only when the last thing done is a sync_all that returned Ok and
\* nothing written is uncommitted; from the final verification on, no step
\* changes the file's bytes; and whenever a verification reads the file
\* every write of the passes before it has been committed by sync_all.
C15_FinalStepsInOrder ==
    [][\A t \in Threads :
          LET p == inv[t].path
              std == shredder.standard
              n == Len(PassEvents(t)')
          IN  /\ Succeeded(t)' =>
                    /\ \E k \in 0..2 :
                          AfterLastPass(t)' =
                              [i \in 1..k |-> "verify"] \o << "sync", "remove" >>
                    /\ Len(VerifyEvents(t)') = Len(PlannedVerifications(std, n))
              /\ (inv'[t].pc = "remove") =>
                    /\ EvNames(t)'[Len(EvNames(t)')] = "sync"
                    /\ ~disk'[p].dirty
              /\ (disk'[p].exists # disk[p].exists) =>
                    /\ inv[t].pc = "remove"
                    /\ EvNames(t)[Len(EvNames(t))] = "sync"
              /\ WritesOver(t) =>
                    /\ disk'[p].data = disk[p].data
                    /\ (hist'[t].prior = hist[t].prior) => WritesOver(t)'
              /\ InVerify(t)' => ~disk'[p].dirty]_vars

C15_Witness ==
    \E t \in Threads :
        /\ Succeeded(t)
        /\ shredder.standard.variant = "Modern"
        /\ Len(PassEvents(t)) = 4
        /\ AfterLastPass(t) = << "verify", "sync", "remove" >>
        /\ inv[t].file_size > MIN_BUFFER
        /\ shredder.buffer_size = MIN_BUFFER

\* ------------------------------------------------------------------------
\* C16: concurrent wipes of different files through one Shredder
\* ------------------------------------------------------------------------

\* no call of this invocation failed, apart from the two failures a wipe
\* does not return (hardware erase, end of file in a Full verification)
NoFault(t) ==
    \A i \in 1..Len(hist[t].errors) :
        hist[t].errors[i].op \in {"perform_secure_erase", "read_exact_eof"}

\* C16: with two invocations running concurrently on different files,
\* every step is a step of one invocation, touches no file but that
\* invocation's own and leaves the Shredder as it is once a wipe has
\* started; an invocation none of whose calls failed returns Ok with its
\* path removed, and the other thread's file is then as that thread left it.
C16_SharedShredderIndependence ==
    [][\A t \in Threads :
          LET p == inv[t].path
          IN  /\ (\E u \in Threads : inv[u].pc # "idle") => shredder' = shredder
              /\ (inv'[t] # inv[t] \/ hist'[t] # hist[t]) =>
                    /\ \A u \in Threads \ {t} : inv'[u] = inv[u] /\ hist'[u] = hist[u]
                    /\ \A q \in DOMAIN disk : q # inv'[t].path => disk'[q] = disk[q]
              /\ (\E q \in DOMAIN disk : disk'[q] # disk[q]) =>
                    \E u \in Threads : inv[u].pc \notin {"idle", "done"} /\ disk'[inv[u].path] # disk[inv[u].path]
              /\ (inv'[t].pc = "done" /\ NoFault(t)' /\ inv'[t].result.tag # "Panic") =>
                    /\ Succeeded(t)'
                    /\ ~disk'[p].exists
              /\ (inv[t].pc = "done" /\ inv'[t].pc = "done") =>
                    disk'[p].data = disk[p].data /\ disk'[p].exists = disk[p].exists
              /\ \A u \in Threads \ {t} :
                    (inv[t].pc # "idle" /\ inv[u].pc # "idle") => inv[t].path # inv[u].path]_vars

C16_Witness ==
    /\ Threads = Workers
    /\ \A t \in Threads : Succeeded(t) /\ ~disk[inv[t].path].exists
    /\ inv[1].path # inv[2].path
    /\ Len(PassEvents(1)) = 4 /\ Len(PassEvents(2)) = 4
    /\ disk[inv[1].path].data # disk[inv[2].path].data

\* ------------------------------------------------------------------------
\* C17: a path that does not exist; wipe is not idempotent
\* ------------------------------------------------------------------------

\* C17: a wipe whose path does not exist when it opens it returns the IO
\* error NotFound from that open, having made no other call, and the step
\* changes nothing on disk (nothing is written or created); a wipe called
\* again on a path whose wipe returned Ok finds no file and so never gets
\* past the open: it ends with that NotFound error, not with Ok.
C17_MissingPathIsAnError ==
    [][\A t \in Threads :
          LET p == inv[t].path
          IN  /\ (inv[t].pc = "open" /\ ~disk[p].exists /\ inv'[t] # inv[t]) =>
                    /\ inv'[t].pc = "done"
                    /\ inv'[t].result = IoError("open", "NotFound")
                    /\ disk' = disk
                    /\ hist'[t].events = <<>> /\ hist'[t].ioCount = 1
              /\ (inv'[t].result = IoError("open", "NotFound")) => ~disk'[p].exists
              /\ (inv[t].pc = "done" /\ inv[t].result.tag = "Ok" /\ inv'[t] # inv[t]) =>
                    /\ inv'[t].pc = "open" /\ inv'[t].path = p
                    /\ ~disk'[p].exists
                    /\ hist'[t].prior = "Ok"
              /\ (hist'[t].prior = "Ok") =>
                    /\ inv'[t].pc \in {"open", "done"}
                    /\ inv'[t].pc = "done" =>
                          inv'[t].result = IoError("open", "NotFound")]_vars

C17_Witness ==
    \E t \in Threads :
        /\ hist[t].prior = "Ok"
        /\ inv[t].pc = "done"
        /\ inv[t].result = IoError("open", "NotFound")
        /\ Len(disk[inv[t].path].data) > MIN_BUFFER

\* ------------------------------------------------------------------------
\* C18: a file that cannot be opened for read+write
\* ------------------------------------------------------------------------

\* C18: the open of a file that exists but is not writable ends the wipe
\* with the IO error PermissionDenied; whenever the open fails, for this
\* or another reason, it is the only call the wipe made (no TRIM, hardware
\* erase or pass) and the file's bytes, length and existence are what they
\* were before the wipe.
C18_OpenFailureLeavesFileUntouched ==
    [][\A t \in Threads :
          LET p == inv[t].path
          IN  /\ (inv[t].pc = "open" /\ disk[p].exists /\ ~disk[p].writable
                    /\ inv'[t] # inv[t]) =>
                    inv'[t].result = IoError("open", "PermissionDenied")
              /\ (inv[t].pc = "open" /\ inv'[t].result.op = "open") =>
                    /\ inv'[t].pc = "done" /\ inv'[t].result.tag = "Io"
                    /\ disk' = disk
                    /\ hist[t].events = <<>> /\ hist[t].ioCount = 0
                    /\ hist'[t].events = <<>> /\ hist'[t].ioCount = 1
                    /\ HwCalls(t)' = 0 /\ ~WriteIssued(t)'
                    /\ (disk[p].exists /\ hist[t].prior = "-") =>
                          /\ disk'[p].data = InitialData(Len(disk[p].data))
                          /\ disk'[p].exists]_vars

C18_Witness ==
    \E t \in Threads :
        /\ inv[t].result = IoError("open", "PermissionDenied")
        /\ shredder.standard.variant = "Legacy"
        /\ disk[inv[t].path].exists
        /\ Len(disk[inv[t].path].data) > MIN_BUFFER

\* ------------------------------------------------------------------------
\* C19: a zero-length file
\* ------------------------------------------------------------------------

\* the wipe opened a file of length zero and none of its calls failed
EmptyFileWipe(t) ==
    /\ Has(t, "metadata") /\ inv[t].file_size = 0
    /\ NoFault(t)

\* C19: a wipe of a zero-length file, none of whose calls failed, returns
\* Ok whatever the standard and the verification level: no pass wrote a
\* byte, every verification it ran reported success, and the wipe ended
\* with sync then remove, the path being gone.
C19_EmptyFileAlwaysWiped ==
    \A t \in Threads :
        (EmptyFileWipe(t) /\ inv[t].pc = "done") =>
            /\ Succeeded(t)
            /\ hist[t].covered = 0
            /\ Len(VerifyEvents(t)) =
                  Len(PlannedVerifications(shredder.standard, Len(PassEvents(t))))
            /\ \E k \in 0..2 :
                  AfterLastPass(t) = [i \in 1..k |-> "verify"] \o << "sync", "remove" >>
            /\ ~disk[inv[t].path].exists

\* ------------------------------------------------------------------------
\* C20: Full verification after a healthy pass
\* ------------------------------------------------------------------------

\* no call failed, apart from the comparison of a whole-file verification
HealthyPasses(t) ==
    \A i \in 1..Len(hist[t].errors) :
        \/ hist[t].errors[i].op = "read_exact_eof"
        \/ /\ hist[t].errors[i].op = "compare"
           /\ inv[t].result = VerificationFailed("Full", 0)

\* C20: whatever the file size and the configured buffer size, a Full or
\* Enhanced verification that follows a pass all of whose chunk writes and
\* readbacks succeeded never reports a mismatch; a wipe with such a level
\* none of whose calls failed therefore returns Ok with the path removed.
C20_FullVerificationAfterHealthyPass ==
    \A t \in Threads :
        /\ inv[t].result # VerificationFailed("Full", 0)
        /\ (inv[t].pc = "done" /\ HealthyPasses(t)) =>
              /\ Succeeded(t)
              /\ ~disk[inv[t].path].exists

\* ------------------------------------------------------------------------
\* C21: Basic verification after a healthy pass
\* ------------------------------------------------------------------------

\* no call failed, apart from the comparison of a sample
HealthyUntilSample(t) ==
    \A i \in 1..Len(hist[t].errors) :
        \/ hist[t].errors[i].op = "read_exact_eof"
        \/ /\ hist[t].errors[i].op = "compare"
           /\ inv[t].result.tag = "VerificationFailed"
           /\ inv[t].result.detail = "Sample"

\* C21: whatever the file size, the buffer size and the offsets drawn, a
\* Basic verification that follows a pass all of whose chunk writes and
\* readbacks succeeded never reports a mismatch; a Modern wipe with level
\* Basic that ran its passes and none of whose calls failed therefore
\* returns Ok with the path removed.
C21_BasicVerificationAfterHealthyPass ==
    \A t \in Threads :
        ~Has(t, "hw_ok") =>
        /\ ~(inv[t].result.tag = "VerificationFailed" /\ inv[t].result.detail = "Sample")
        /\ (/\ shredder.standard.variant = "Modern"
            /\ inv[t].pc = "done"
            /\ HealthyUntilSample(t)) =>
              /\ Succeeded(t)
              /\ ~disk[inv[t].path].exists

\* ------------------------------------------------------------------------
\* C22: what Full verification compares
\* ------------------------------------------------------------------------

\* the step ends a Full or Enhanced verification of a non-empty file with Ok
FullVerificationPasses(t) ==
    /\ inv[t].pc = "verify_full"
    /\ Len(VerifyEvents(t)') = Len(VerifyEvents(t)) + 1

\* C22: a Full or Enhanced verification reports success only after it has
\* compared every byte of the file: the blocks it read and compared, from
\* offset 0 to its position, reach the end of the file, and each of these
\* bytes equals the expected pattern byte.
C22_FullVerificationComparesEveryByte ==
    [][\A t \in Threads :
          FullVerificationPasses(t) =>
              LET data == disk[inv[t].path].data
                  plen == Len(inv[t].buffer)
              IN  /\ inv[t].pos = Len(data)
                  /\ \A o \in 0..(Len(data) - 1) :
                        data[o + 1] = inv[t].buffer[(o % plen) + 1]]_vars

\* ------------------------------------------------------------------------
\* C23: where Basic verification reads
\* ------------------------------------------------------------------------

\* the step reads a sample: the loop of Basic is not over, the offset range
\* is not empty and the seek succeeded
ReadsSample(t) ==
    /\ inv[t].pc = "verify_basic"
    /\ inv[t].vleft > 0
    /\ inv[t].vsize > Len(inv[t].buffer)
    /\ hist'[t].ioCount = hist[t].ioCount + 2

\* the offset of the sample the step reads
SampleOffset(t) ==
    IF inv'[t].result.tag = "Io" THEN inv'[t].pos ELSE inv'[t].pos - Len(inv[t].buffer)

\* C23: every sample Basic verification reads starts at a multiple of the
\* pattern length and ends inside the file.
C23_SamplesPatternAligned ==
    [][\A t \in Threads :
          ReadsSample(t) =>
              /\ SampleOffset(t) % Len(inv[t].buffer) = 0
              /\ SampleOffset(t) + Len(inv[t].buffer) <= inv[t].vsize]_vars

\* ------------------------------------------------------------------------
\* C24: how many samples Basic verification compares
\* ------------------------------------------------------------------------

\* the step ends a Basic verification of a non-empty file with Ok
BasicVerificationPasses(t) ==
    /\ inv[t].pc = "verify_basic"
    /\ Len(VerifyEvents(t)') = Len(VerifyEvents(t)) + 1

\* C24: a Basic verification of a non-empty file that reports success has
\* compared no sample when the file is shorter than the pattern, and
\* max(file_size / 100, 1) samples, so at least one, when the file is at
\* least one pattern length long.
C24_BasicSampleCount ==
    [][\A t \in Threads :
          BasicVerificationPasses(t) =>
              LET planned == Max(inv[t].vsize \div 100, 1)
                  taken == planned - inv[t].vleft
              IN  IF inv[t].vsize < Len(inv[t].buffer)
                  THEN taken = 0
                  ELSE taken = planned]_vars

\* ------------------------------------------------------------------------
\* C25: what a pass with a fixed pattern leaves in the file
\* ------------------------------------------------------------------------

\* the byte a tiling of the fixed pattern p from offset 0 has at offset o
TiledByte(p, o) ==
    CASE p.kind = "Zeros" -> 0
      [] p.kind = "Ones" -> 255
      [] p.kind = "Custom" -> p.bytes[(o % Len(p.bytes)) + 1]

\* the step completes a pass
CompletesPass(t) == Len(PassEvents(t)') = Len(PassEvents(t)) + 1

\* C25: when a pass with a fixed pattern P (Zeros, Ones or Custom) has
\* completed, the byte of the file at every offset o is P[o mod len(P)],
\* and verify_buffer(P, file content) is true.
C25_PassLeavesTiling ==
    [][\A t \in Threads :
          CompletesPass(t) =>
              LET P == inv[t].plist[inv[t].pidx]
                  data == disk'[inv[t].path].data
              IN  P.kind # "Random" =>
                    /\ \A o \in 0..(Len(data) - 1) : data[o + 1] = TiledByte(P, o)
                    /\ verify_buffer(P, data)]_vars

\* ------------------------------------------------------------------------
\* C26: the pass sequences of the legacy standards
\* ------------------------------------------------------------------------

\* the three bytes of a 24-bit value, most significant first
Bytes3(n) == << n \div 65536, (n \div 256) % 256, n % 256 >>

\* the 27 fixed Gutmann values: 0x555555, 0xAAAAAA, the three rotations of
\* 0x924924, 0x000000 to 0xFFFFFF in steps of 0x111111, the three rotations
\* of 0x924924 again, the three rotations of 0x6DB6DB
GutmannFixed ==
    << 5592405, 11184810, 9586980, 4793490, 2396745 >>
    \o [k \in 1..16 |-> (k - 1) * 1118481]
    \o << 9586980, 4793490, 2396745, 7190235, 11983725, 14380470 >>

DocumentedPatterns(legacy) ==
    CASE legacy = "Dod522022M" -> << Zeros, Ones, Random >>
      [] legacy = "VsitrStandard" ->
           << Zeros, Ones, Zeros, Ones, Zeros, Ones, Random >>
      [] legacy = "Gutmann" ->
           << Random, Random, Random, Random >>
           \o [i \in 1..27 |-> Custom(Bytes3(GutmannFixed[i]))]
           \o << Random, Random, Random, Random >>

\* C26: get_patterns returns [Zeros, Ones, Random] for DoD 5220.22-M, three
\* Zeros/Ones pairs then Random for VSITR, and for Gutmann 35 patterns: 4
\* Random, the 27 fixed three-byte patterns in table order, 4 Random; a
\* Legacy wipe runs with exactly that list.
C26_LegacyPatternSequences ==
    /\ \A s \in LegacyStandards : get_patterns(s) = DocumentedPatterns(s)
    /\ Len(get_patterns("Dod522022M")) = 3
    /\ Len(get_patterns("VsitrStandard")) = 7
    /\ Len(get_patterns("Gutmann")) = 35
    /\ \A t \in Threads :
          (shredder.standard.variant = "Legacy" /\ inv[t].pc # "idle") =>
              inv[t].plist = DocumentedPatterns(shredder.standard.legacy)

C26_Witness ==
    \E t \in Threads :
        /\ shredder.standard.variant = "Legacy"
        /\ shredder.standard.legacy = "Gutmann"
        /\ inv[t].pc = "pass_start"
        /\ inv[t].pidx = 7
        /\ inv[t].plist[7] = Custom(<< 146, 73, 36 >>)

\* ------------------------------------------------------------------------
\* C27: fill then verify
\* ------------------------------------------------------------------------

\* C27: for every pattern, Custom with any byte sequence included, and
\* every buffer length from 0 up, fill_buffer does not fail, and
\* verify_buffer applied to the buffer as fill_buffer left it returns true.
C27_FillThenVerify ==
    \A t \in Threads :
        /\ inv[t].result # Panic("fill_buffer")
        /\ (inv[t].pc = "done" /\ EvNames(t) = << "fill", "verify" >>) =>
              inv[t].result = Returned(TRUE)

\* ------------------------------------------------------------------------
\* C28: what verify_buffer accepts
\* ------------------------------------------------------------------------

\* every byte of the buffer is the byte the tiling of the fixed pattern p has
MatchesTiling(p, buffer) ==
    \A i \in 1..Len(buffer) : buffer[i] = TiledByte(p, i - 1)

\* C28: verify_buffer returns true for Random whatever the buffer holds;
\* for Zeros, Ones and a Custom pattern (of one byte or more) it returns
\* true exactly when every byte of the buffer, those of a trailing partial
\* chunk included, equals the tiled pattern byte.
C28_VerifyBufferIffTiling ==
    \A t \in Threads :
        LET P == inv[t].plist[1]
        IN  (inv[t].result.tag = "Value") =>
                IF P.kind = "Random"
                THEN inv[t].result = Returned(TRUE)
                ELSE inv[t].result = Returned(MatchesTiling(P, inv[t].buffer))

\* a single differing byte, in the trailing partial chunk, is rejected
C28_Witness ==
    \E t \in Threads :
        /\ inv[t].plist[1] = Custom(<< 1, 2, 3 >>)
        /\ EvNames(t) = << "fill", "store", "verify" >>
        /\ Len(inv[t].buffer) = MaxLen
        /\ inv[t].pos = MaxLen
        /\ inv[t].result = Returned(FALSE)

\* ------------------------------------------------------------------------
\* C29: a Custom pattern has at least one byte
\* ------------------------------------------------------------------------

\* C29: every pattern a wipe applies fill_buffer to, whether it comes from
\* get_patterns, from the Purge sequence or from the caller's WipeConfig, is
\* not a Custom pattern without bytes.
C29_CustomPatternNonEmpty ==
    \A t \in Threads :
        (inv[t].pc = "pass_start") =>
            LET P == inv[t].plist[inv[t].pidx]
            IN  P.kind = "Custom" => Len(P.bytes) >= 1

\* ------------------------------------------------------------------------
\* C30: which storage types support secure erase
\* ------------------------------------------------------------------------

\* the result the storage classification is documented to give
SecureEraseDocumented(st) ==
    IF st.variant = "Flash" THEN FALSE ELSE st.caps.supports_secure_erase

\* C30: supports_secure_erase is the supports_secure_erase flag for Hdd and
\* Ssd and false for Flash, whatever the four flags are; two storage types
\* of the same variant with the same supports_secure_erase flag give the
\* same result; a Purge calls the hardware erase only on a storage type for
\* which the result is true, and runs no software pass on such a type
\* unless the hardware erase was called and failed.
C30_SupportsSecureErase ==
    LET st == shredder.storage_type
    IN  /\ supports_secure_erase(st) = SecureEraseDocumented(st)
        /\ \A other \in AllStorageTypes :
              (/\ other.variant = st.variant
               /\ other.caps.supports_secure_erase = st.caps.supports_secure_erase) =>
                  supports_secure_erase(other) = supports_secure_erase(st)
        /\ \A t \in Threads :
              /\ (inv[t].pc = "secure_erase" \/ HwCalls(t) > 0) =>
                    SecureEraseDocumented(st)
              /\ (InPass(t) /\ SecureEraseDocumented(st)) => Has(t, "hw_failed")

\* a Flash device whose supports_secure_erase flag is set is purged in
\* software, the hardware erase never being called
C30_Witness ==
    \E t \in Threads :
        /\ shredder.storage_type.variant = "Flash"
        /\ shredder.storage_type.caps.supports_secure_erase
        /\ Succeeded(t)
        /\ HwCalls(t) = 0
        /\ Len(PassEvents(t)) = 4

\* ------------------------------------------------------------------------
\* C31: which storage types need wear-leveling handling
\* ------------------------------------------------------------------------

\* the result the storage classification is documented to give
WearLevelingDocumented(st) ==
    IF st.variant = "Hdd" THEN FALSE ELSE st.caps.has_wear_leveling

\* C31: requires_wear_leveling_handling is the has_wear_leveling flag for
\* Ssd and Flash and false for Hdd, whatever the four flags are; two storage
\* types of the same variant with the same has_wear_leveling flag give the
\* same result; a Modern wipe enters handle_wear_leveling, and so calls
\* TRIM, only on a storage type for which the result is true.
C31_RequiresWearLevelingHandling ==
    LET st == shredder.storage_type
    IN  /\ requires_wear_leveling_handling(st) = WearLevelingDocumented(st)
        /\ \A other \in AllStorageTypes :
              (/\ other.variant = st.variant
               /\ other.caps.has_wear_leveling = st.caps.has_wear_leveling) =>
                  requires_wear_leveling_handling(other) =
                      requires_wear_leveling_handling(st)
        /\ \A t \in Threads :
              (\/ inv[t].pc = "wear"
               \/ Has(t, "trim")
               \/ \E i \in 1..Len(hist[t].errors) :
                     hist[t].errors[i].op = "perform_trim") =>
                  WearLevelingDocumented(st)

\* an Hdd whose has_wear_leveling and supports_trim flags are set is wiped
\* without TRIM
C31_Witness ==
    \E t \in Threads :
        /\ shredder.storage_type.variant = "Hdd"
        /\ shredder.storage_type.caps.has_wear_leveling
        /\ shredder.storage_type.caps.supports_trim
        /\ Succeeded(t)
        /\ ~Has(t, "trim")

\* ------------------------------------------------------------------------
\* C32: the buffer size of a Shredder
\* ------------------------------------------------------------------------

\* the effective size documented for a requested size
EffectiveSize(n) == IF n < 4096 THEN 4096 ELSE IF n > 16 * 1048576 THEN 16 * 1048576 ELSE n

\* C32: a new Shredder has a buffer size of 1 MiB; with_buffer_size(n)
\* makes get_buffer_size return n clamped to [4096, 16 MiB], for n = 0 and
\* n above 16 MiB too, and leaves standard and storage_type as they were;
\* the buffer size of a Shredder is always within [4096, 16 MiB].
C32_BufferSizeClamped ==
    /\ get_buffer_size = 1048576
    /\ [][\A n \in BufferRequests :
            with_buffer_size(n) =>
                /\ get_buffer_size' = EffectiveSize(n)
                /\ shredder'.standard = shredder.standard
                /\ shredder'.storage_type = shredder.storage_type]_vars
    /\ [](4096 <= get_buffer_size /\ get_buffer_size <= 16 * 1048576)

\* a request above the maximum was clamped
C32_Witness ==
    /\ get_buffer_size = 16 * 1048576
    /\ shredder.standard.variant = "Legacy"

\* ------------------------------------------------------------------------
\* C33: Enhanced is Full
\* ------------------------------------------------------------------------

\* no I/O call of the verification failed (the end of file is not a failure)
ReadsSucceeded(t) ==
    \A i \in 1..Len(hist[t].errors) :
        hist[t].errors[i].op \in {"read_exact_eof", "compare"}

\* what an observer of verify_wiping sees: where it is, what it returned,
\* the file position, the calls made
Observed(t) ==
    << inv[t].pc, inv[t].result, inv[t].pos, hist[t].ioCount, hist[t].errors,
       Len(hist[t].events) >>

DocumentedBufferSize(n) ==
    IF n < 4096
    THEN n
    ELSE Min(8 * 1048576, Max(4096, n \div 100))

\* C34: the pattern-buffer size computed for a file of file_size bytes is
\* file_size below 4096 and min(8 MiB, max(4096, file_size / 100)) from
\* 4096 on, whatever the configured buffer_size is; it is at least 1 for a
\* non-empty file and never more than file_size.
C34_PatternBufferSize ==
    \A t \in Threads :
        (inv[t].result.tag = "Value") =>
            LET n == inv[t].result.offset
                file_size == inv[t].file_size
            IN  /\ n = DocumentedBufferSize(file_size)
                /\ file_size > 0 => n >= 1
                /\ n <= file_size

\* a file large enough for the cap, with the smallest configured buffer
C34_Witness ==
    \E t \in Threads :
        /\ inv[t].result = Sized(8 * 1048576)
        /\ inv[t].file_size > 100 * max_buffer
        /\ get_buffer_size = MIN_BUFFER

\* ------------------------------------------------------------------------
\* C35: the chunks of a pass
\* ------------------------------------------------------------------------

\* C35: during every pass written stays between 0 and file_size; a chunk
\* is min(file_size - written, buffer_size) >= 1 bytes, starts at offset
\* written, where the chunk before it ended (0 for the first), and changes
\* no byte outside [written, written + size), which lies below file_size;
\* written advances by exactly the chunk once it is read back, the pass
\* completes with written = file_size, and the file keeps its length.
C35_ChunksTileTheFile ==
    /\ [](\A t \in Threads :
             InPass(t) => inv[t].written >= 0 /\ inv[t].written <= inv[t].file_size)
    /\ [][\A t \in Threads :
             LET iv == inv[t]
                 size == Min(iv.file_size - iv.written, shredder.buffer_size)
                 before == disk[iv.path].data
                 after == disk'[iv.path].data
             IN  /\ InPass(t) => Len(after) = Len(before)
                 /\ (iv.pc = "pass_start" /\ InPass(t)') =>
                        inv'[t].written = 0 /\ inv'[t].pos = 0
                 /\ (iv.pc = "chunk_write" /\ inv'[t] # iv) =>
                        /\ size >= 1
                        /\ iv.pos = iv.written
                        /\ iv.written = hist[t].covered
                        /\ iv.written + size <= iv.file_size
                        /\ SubSeq(after, 1, iv.written) = SubSeq(before, 1, iv.written)
                        /\ SubSeq(after, iv.written + size + 1, Len(after))
                             = SubSeq(before, iv.written + size + 1, Len(before))
                        /\ inv'[t].pc = "chunk_verify" =>
                               /\ inv'[t].pos = iv.written + size
                               /\ hist'[t].covered = iv.written + size
                 /\ (iv.pc = "chunk_verify" /\ InPass(t)') =>
                        /\ inv'[t].written = iv.written + size
                        /\ inv'[t].pos = inv'[t].written
                        /\ (inv'[t].pc = "pass_sync") = (inv'[t].written = iv.file_size)
                 /\ CompletesPass(t) =>
                        iv.written = iv.file_size /\ hist[t].covered = iv.file_size]_vars

\* a pass of two chunks, the second shorter than the buffer
C35_Witness ==
    \E t \in Threads :
        /\ inv[t].pc = "pass_sync"
        /\ get_buffer_size = MIN_BUFFER + 1
        /\ inv[t].file_size = 2 * MIN_BUFFER
        /\ inv[t].written = inv[t].file_size
        /\ hist[t].covered = inv[t].file_size

\* ------------------------------------------------------------------------
\* C36: termination
\* ------------------------------------------------------------------------

\* the chunks a pass over file_size bytes takes
ChunksOfPass(file_size, buffer_size) == (file_size + buffer_size - 1) \div buffer_size

C37_VerifiesWhatWasWritten ==
    \A t \in Threads :
        (/\ shredder.standard.variant = "Modern"
         /\ inv[t].pc \in {"verify_basic", "verify_full"}) =>
            /\ Len(PassEvents(t)) >= 1
            /\ ~Has(t, "hw_ok")

\* ------------------------------------------------------------------------
\* C38: two wipes of one path
\* ------------------------------------------------------------------------

\* C38: when two threads wipe the same path, at most one wipe returns
\* success and the other one returns an error; a wipe that returned
\* success has left no file at the path; and every wipe that was called
\* returns, whatever the interleaving.
C38_SamePathWipes ==
    /\ [](\A t \in Workers, u \in Workers :
             (t # u /\ Succeeded(t)) =>
                /\ ~Succeeded(u)
                /\ inv[u].pc = "done" => Failed(u)
                /\ ~disk[inv[t].path].exists)
    /\ \A t \in Workers : (inv[t].pc # "idle") ~> (inv[t].pc = "done")

\* both had the file open; one removed it, the other then failed to
C38_Witness ==
    \E t \in Workers, u \in Workers :
        /\ Succeeded(t)
        /\ inv[u].pc = "done"
        /\ inv[u].result = IoError("remove_file", "NotFound")
        /\ inv[u].path = inv[t].path
        /\ Len(PassEvents(t)) >= 1
        /\ Len(PassEvents(u)) >= 1

\* ------------------------------------------------------------------------
\* C39: wear-leveling handling and TRIM
\* ------------------------------------------------------------------------

\* the storage type is an Ssd or a Flash device that supports TRIM
TrimCapable ==
    /\ shredder.storage_type.variant \in {"Ssd", "Flash"}
    /\ shredder.storage_type.caps.supports_trim

\* C39: handle_wear_leveling calls the TRIM collaborator exactly when the
\* storage type is Ssd or Flash with supports_trim set.  On a device that
\* requires wear-leveling handling and has no TRIM support it makes no
\* call, returns success and the wipe goes on to its sanitization method;
\* a wipe that called TRIM, or failed in it, ran on a TRIM-capable device.
C39_TrimOnlyWhenSupported ==
    /\ [](\A t \in Threads :
             (Has(t, "trim") \/ inv[t].result.op = "perform_trim") => TrimCapable)
    /\ [][\A t \in Threads :
             (inv[t].pc = "wear" /\ inv'[t] # inv[t]) =>
                IF TrimCapable
                THEN /\ hist'[t].ioCount = hist[t].ioCount + 1
                     /\ \/ Has(t, "trim")' /\ inv'[t].pc # "done"
                        \/ inv'[t].result = IoError("perform_trim", "Other")
                ELSE /\ hist'[t] = hist[t]
                     /\ inv'[t].result = NoResult
                     /\ inv'[t].pc \in {"secure_erase", "pass_start"}]_vars

\* a Flash device with wear leveling and no TRIM: the wipe succeeded
\* without a TRIM call
C39_Witness ==
    \E t \in Threads :
        /\ Succeeded(t)
        /\ shredder.storage_type.variant = "Flash"
        /\ shredder.storage_type.caps.has_wear_leveling
        /\ ~shredder.storage_type.caps.supports_trim
        /\ ~Has(t, "trim")
        /\ Len(PassEvents(t)) >= 1

\* ------------------------------------------------------------------------
\* C40: the Linux secure-erase collaborator
\* ------------------------------------------------------------------------

\* the erase commands a call has issued, with how each ended
EraseCommands(t) == SelectSeq(Evs(t), LAMBDA e : e.ev \in {"nvme", "hdparm"})

\* C40: a call by a caller without root privilege, or on the system disk,
\* returns UnsupportedOperation and has issued no erase command; any other
\* call returns a value and never crashes, issues the NVMe command only
\* for an NVMe device and before the ATA one, which follows only an NVMe
\* command that did not succeed, and returns success exactly when the
\* last command it issued succeeded.
C40_LinuxSecureErase ==
    \A t \in Threads :
        inv[t].pc = "done" =>
            LET cmds == EraseCommands(t)
                last == cmds[Len(cmds)]
            IN  IF Has(t, "not_root") \/ Has(t, "system_disk")
                THEN /\ inv[t].result.tag = "UnsupportedOperation"
                     /\ cmds = <<>>
                ELSE /\ inv[t].result.tag # "Panic"
                     /\ Len(cmds) <= 2
                     /\ \A i \in 1..Len(cmds) :
                           /\ cmds[i].ev = "nvme" =>
                                 /\ i = 1
                                 /\ \E e \in {Evs(t)[j] : j \in 1..Len(Evs(t))} :
                                       e.ev = "device" /\ e.lvl = "NVMe"
                           /\ i > 1 =>
                                 /\ cmds[i].ev = "hdparm"
                                 /\ cmds[i - 1].lvl # "exit_success"
                     /\ (inv[t].result = Ok) =
                           (cmds # <<>> /\ last.lvl = "exit_success")

====
